---- MODULE Spec2Model ----
(***************************************************************************)
(* A model of the cloudinary-evaluator front end:                          *)
(*   - lib/analyzer.js : parseCloudinaryUrl, isMediaFile, finalizeAnalysis, *)
(*                       analyzeFromHtml                                   *)
(*   - App.jsx         : fetchThroughWorker, parseRobotsTxt, parseSitemap,  *)
(*                       compileSitemapResults, handleSiteUrlAnalyze and    *)
(*                       the Cancel button of the crawl progress panel      *)
(*                                                                         *)
(* Strings the code only compares or tests with a regular expression are   *)
(* strings of a small vocabulary; the tests are tables over it.  A string   *)
(* the code builds (an error message) is a sequence of pieces, so that the  *)
(* empty string is <<>> and concatenation is \o.  A URL is its host and     *)
(* the non-empty segments of its path; a segment is the sequence of its     *)
(* comma-separated parts.                                                   *)
(***************************************************************************)
EXTENDS Integers, Sequences, FiniteSets, TLC

\* ------------------------------------------------------------------ bounds
\* longest url-set a sitemap document of Spec lists
MaxPages == 3
\* longest url-set of SpecSample (beyond the sampling cap)
MaxDiscovered == 11
\* most entries of a capture file of SpecSingle
MaxEntries == 5
\* most path segments of a delivery URL of SpecSingle
MaxSegments == 4

\* ------------------------------------------------------- generic helpers
Min(a, b) == IF a < b THEN a ELSE b
Max(a, b) == IF a > b THEN a ELSE b

Range(s) == {s[k] : k \in 1..Len(s)}

RECURSIVE Flatten(_)
Flatten(ss) == IF ss = <<>> THEN <<>> ELSE Head(ss) \o Flatten(Tail(ss))

RECURSIVE SumSeq(_)
SumSeq(s) == IF s = <<>> THEN 0 ELSE Head(s) + SumSeq(Tail(s))

\* --------------------------------------------- analyzer.js: the constants
RESOURCE_TYPES == {"image", "video", "raw"}
DELIVERY_TYPES == {"upload", "fetch", "private", "authenticated"}

\* CLOUDINARY_TX_PATTERN.test(part): an unanchored match of
\* [a-z]+_(auto|limit|fill|...|\d+), on the parts of the vocabulary
TxPatternParts ==
  {"f_auto", "q_auto", "q_auto:good", "w_500", "h_300", "c_fill", "hero_1", "w_100;h_50"}
MatchesTxPattern(part) == part \in TxPatternParts

\* /^[a-z]+_\d+/.test(part)
MatchesLetterDigits(part) == part \in {"w_500", "h_300", "hero_1", "w_100;h_50"}

\* /^v\d+$/i.test(part)
IsVersionPart(part) == part \in {"v1"}

\* the extension /\.[a-z0-9]+$/i finds at the end of a part, lower-cased ("" if none)
ExtOf(part) ==
  CASE part = "sample.jpg" -> "jpg"
    [] part = "photo.png" -> "png"
    [] part = "clip.mp4" -> "mp4"
    [] part = "logo.svg" -> "svg"
    [] part = "app.js" -> "js"
    [] part = "notes.txt" -> "txt"
    [] part = "report.pdf" -> "pdf"
    [] OTHER -> ""

HasSemicolon(part) == part \in {"w_100;h_50"}
StartsWithQAutoColon(part) == part \in {"q_auto:good"}
StartsWithW(part) == part \in {"w_500", "w_100;h_50"}
StartsWithH(part) == part \in {"h_300"}
VideoExts == {"mp4", "webm", "mov", "avi", "wmv", "flv", "mkv"}

\* a segment as the code sees it
SegIsOneOf(seg, S) == Len(seg) = 1 /\ seg[1] \in S
SegIs(seg, str) == seg = <<str>>
SegHasExt(seg) == ExtOf(seg[Len(seg)]) # ""
SegIsVersion(seg) == Len(seg) = 1 /\ IsVersionPart(seg[1])
SegHasSemicolon(seg) == \E k \in 1..Len(seg) : HasSemicolon(seg[k])

hasCloudinaryTransformations(seg) ==
  IF Len(seg) = 1
  THEN MatchesTxPattern(seg[1])
  ELSE \E k \in 1..Len(seg) : MatchesTxPattern(seg[k]) \/ MatchesLetterDigits(seg[k])

normalizeResourceType(seg) == IF SegIs(seg, "images") THEN <<"image">> ELSE seg

Null == [isNull |-> TRUE]
\* the standard or explicit structure was not recognised: try the next path
Fallthrough == [fallthrough |-> TRUE]

\* segment.split(",").map(t => t.trim()).filter(Boolean)
NonEmptyParts(seg) == SelectSeq(seg, LAMBDA p : p # "")

\* the scan of the remainder: the transformation segments and stopIndex
\* (0-based, as in the code); `k` is the 1-based position being looked at
RECURSIVE ScanImageVideo(_, _, _)
ScanImageVideo(rem, k, txSegs) ==
  IF k > Len(rem) THEN [tx |-> txSegs, stop |-> Len(rem)]
  ELSE IF SegIsVersion(rem[k]) \/ SegHasExt(rem[k]) THEN [tx |-> txSegs, stop |-> k - 1]
  ELSE ScanImageVideo(rem, k + 1,
         IF hasCloudinaryTransformations(rem[k]) THEN Append(txSegs, rem[k]) ELSE txSegs)

ScanRaw(rem) ==
  IF hasCloudinaryTransformations(rem[1])
  THEN [tx |-> <<rem[1]>>, stop |-> 1]
  ELSE [tx |-> <<>>, stop |-> 0]

\* the descriptor both structured paths build from the remainder
DescriptorFromRemainder(cloudName, resourceType, deliveryType, rem) ==
  LET isRawFile == resourceType = "raw"
      scan == IF isRawFile THEN ScanRaw(rem) ELSE ScanImageVideo(rem, 1, <<>>)
      allTransformations ==
        Flatten([k \in 1..Len(scan.tx) |-> NonEmptyParts(scan.tx[k])])
      publicId == IF isRawFile /\ Len(scan.tx) = 0
                  THEN rem
                  ELSE SubSeq(rem, scan.stop + 1, Len(rem))
  IN [cloudName |-> cloudName,
      resourceType |-> resourceType,
      deliveryType |-> deliveryType,
      publicId |-> publicId,
      transformations |-> allTransformations,
      txSet |-> Range(allTransformations)]

\* lines 97-192: the standard structure, with or without a delivery type
\* result: a descriptor, Null, or Fallthrough (go on to the fallbacks)
ParseStandard(url) ==
  LET segments == url.path
      first == segments[1]
      shift == ~SegIsOneOf(first, RESOURCE_TYPES) /\ normalizeResourceType(first) # <<"image">>
      idx == IF shift THEN 1 ELSE 0
      cloudName == IF shift THEN first ELSE <<>>
      resourceType == segments[idx + 1]
      normalizedResourceType == normalizeResourceType(resourceType)
      hasDelivery == Len(segments) >= idx + 2
      deliveryType == IF hasDelivery THEN segments[idx + 2] ELSE <<>>
      isDelivery == hasDelivery /\ SegIsOneOf(deliveryType, DELIVERY_TYPES)
      remainderStartIdx ==
        IF isDelivery THEN idx + 2
        ELSE IF ~hasDelivery \/ hasCloudinaryTransformations(deliveryType) THEN idx + 1
        ELSE -1
      remainderSegments == SubSeq(segments, remainderStartIdx + 1, Len(segments))
  IN IF ~(SegIsOneOf(normalizedResourceType, RESOURCE_TYPES) \/ SegIs(resourceType, "images"))
     THEN Fallthrough
     ELSE IF ~(remainderStartIdx > 0) THEN Fallthrough
     ELSE IF remainderSegments = <<>> THEN Null
     ELSE DescriptorFromRemainder(
            IF cloudName # <<>> THEN cloudName ELSE <<url.host>>,
            normalizedResourceType[1],
            IF isDelivery THEN deliveryType[1] ELSE "upload",
            remainderSegments)

\* lines 194-274: an explicit <resource type>/<delivery type> pair anywhere
ExplicitPairAt(segments, k) ==
  /\ SegIsOneOf(normalizeResourceType(segments[k]), RESOURCE_TYPES) \/ SegIs(segments[k], "images")
  /\ SegIsOneOf(segments[k + 1], DELIVERY_TYPES)

ParseExplicit(url) ==
  LET segments == url.path
      hits == {k \in 1..(Len(segments) - 1) : ExplicitPairAt(segments, k)}
  IN IF hits = {} THEN Fallthrough
     ELSE LET k == CHOOSE h \in hits : \A g \in hits : h <= g
              remainderSegments == SubSeq(segments, k + 2, Len(segments))
          IN IF remainderSegments = <<>> THEN Null
             ELSE DescriptorFromRemainder(
                    IF k > 1 THEN segments[k - 1] ELSE <<url.host>>,
                    normalizeResourceType(segments[k])[1],
                    segments[k + 1][1],
                    remainderSegments)

\* the CNAME heuristic taking any path that ends in a file name for a delivery URL
ParseCnameAnyFile(url) ==
  IF ~SegHasExt(url.path[Len(url.path)]) THEN Null
  ELSE [cloudName |-> <<url.host>>,
        resourceType |-> "image",
        deliveryType |-> "upload",
        publicId |-> url.path,
        transformations |-> <<>>,
        txSet |-> {}]

\* the CNAME heuristic taking a segment with semicolons for transformations
ParseCnameWithSemicolons(url) ==
  LET segments == url.path
      hits == {k \in 1..Len(segments) : hasCloudinaryTransformations(segments[k])}
  IN IF hits = {} THEN Null
     ELSE LET k == CHOOSE h \in hits : \A g \in hits : h <= g
              publicIdSegments == SubSeq(segments, k + 1, Len(segments))
              txParts == SelectSeq(segments[k], LAMBDA p : p # "")
          IN IF publicIdSegments = <<>> THEN Null
             ELSE IF ~SegHasExt(publicIdSegments[Len(publicIdSegments)]) THEN Null
             ELSE [cloudName |-> <<url.host>>,
                   resourceType |->
                     IF ExtOf(publicIdSegments[Len(publicIdSegments)]
                                [Len(publicIdSegments[Len(publicIdSegments)])]) \in VideoExts
                     THEN "video" ELSE "image",
                   deliveryType |-> "upload",
                   publicId |-> publicIdSegments,
                   transformations |-> segments[k],
                   txSet |-> Range(txParts)]

\* lines 276-323: the CNAME heuristic
ParseCname(url) ==
  LET segments == url.path
      hits == {k \in 1..Len(segments) :
                 ~SegHasSemicolon(segments[k]) /\ hasCloudinaryTransformations(segments[k])}
  IN IF hits = {} THEN Null
     ELSE LET k == CHOOSE h \in hits : \A g \in hits : h <= g
              publicIdSegments == SubSeq(segments, k + 1, Len(segments))
              txParts == SelectSeq(segments[k], LAMBDA p : p # "")
          IN IF publicIdSegments = <<>> THEN Null
             ELSE IF ~SegHasExt(publicIdSegments[Len(publicIdSegments)]) THEN Null
             ELSE [cloudName |-> <<url.host>>,
                   resourceType |->
                     IF ExtOf(publicIdSegments[Len(publicIdSegments)]
                                [Len(publicIdSegments[Len(publicIdSegments)])]) \in VideoExts
                     THEN "video" ELSE "image",
                   deliveryType |-> "upload",
                   publicId |-> publicIdSegments,
                   transformations |-> segments[k],
                   txSet |-> Range(txParts)]

parseCloudinaryUrl(url) ==
  IF ~url.valid THEN Null
  ELSE IF Len(url.path) < 2 THEN Null
  ELSE LET std == ParseStandard(url)
       IN IF std # Fallthrough THEN std
          ELSE LET expl == ParseExplicit(url)
               IN IF expl # Fallthrough THEN expl ELSE ParseCname(url)

\* ------------------------------------------------ analyzer.js: isMediaFile
\* new URL(url, "https://placeholder").hostname; a relative URL has host ""
ParsedHostname(url) == IF url.host = "" THEN "placeholder" ELSE url.host

\* the empty string
EmptyUrl == [valid |-> TRUE, host |-> "", path |-> <<>>]

\* NON_MEDIA_PATTERNS: the tracking hosts, the tracking words and the
\* non-media file extensions, on the vocabulary
NonMediaHosts == {"doubleclick.net", "google-analytics.com"}
NonMediaWords == {"tracking", "pixel", "analytics", "beacon"}
NonMediaExts == {"json", "xml", "txt", "js", "css"}
\* MEDIA_EXTENSIONS
MediaExts ==
  {"png", "jpg", "jpeg", "gif", "webp", "avif", "svg", "mp4", "webm", "mov", "avi",
   "wmv", "flv", "mkv", "pdf", "zip", "doc", "docx", "xls", "xlsx", "ppt", "pptx",
   "txt", "json", "xml", "ico", "bmp", "tif", "tiff", "heic", "heif"}

LastExt(path) == IF path = <<>> THEN "" ELSE ExtOf(path[Len(path)][Len(path[Len(path)])])

MatchesNonMedia(url) ==
  \/ url.host \in NonMediaHosts
  \/ \E k \in 1..Len(url.path) : \E j \in 1..Len(url.path[k]) : url.path[k][j] \in NonMediaWords
  \/ LastExt(url.path) \in NonMediaExts

IsImageOrVideoMime(mimeType) == mimeType \in {"image/png", "video/mp4"}

isMediaFile(url, mimeType) ==
  IF url = EmptyUrl THEN FALSE
  ELSE IF MatchesNonMedia(url) THEN FALSE
  ELSE IF LastExt(url.path) \in MediaExts THEN TRUE
  ELSE IF mimeType # "" /\ IsImageOrVideoMime(mimeType) THEN TRUE
  ELSE FALSE

\* ------------------------------------------- analyzer.js: finalizeAnalysis
\* a page URL that is absent (undefined); a page URL is a number, 0 the empty string
Undefined == -1
Truthy(pageUrl) == pageUrl > 0

isSvgFile(publicId, url) ==
  IF publicId = <<>> /\ url = EmptyUrl THEN FALSE
  ELSE LastExt(IF publicId # <<>> THEN publicId ELSE url.path) = "svg"

IssueFAuto == "Enable f_auto to serve modern formats automatically."
IssueQAuto == "Add q_auto to balance bytes vs quality."
IssueSizing == "Add w_, h_, and c_limit transformations to resize images and prevent oversized assets."

HasFAuto(cld) == "f_auto" \in cld.txSet
HasQAuto(cld) == "q_auto" \in cld.txSet \/ \E t \in cld.txSet : StartsWithQAutoColon(t)
HasWidth(cld) == \E t \in cld.txSet : StartsWithW(t)
HasHeight(cld) == \E t \in cld.txSet : StartsWithH(t)

IsExempt(cld, url) == cld.resourceType = "raw" \/ isSvgFile(cld.publicId, url)

\* one entry of perAsset without the exemption of line 360
AssetOfExemptingNothing(entry) ==
  [url |-> entry.url,
   issues |-> (IF ~HasFAuto(entry.cld) THEN <<IssueFAuto>> ELSE <<>>)
              \o (IF ~HasQAuto(entry.cld) THEN <<IssueQAuto>> ELSE <<>>)
              \o (IF ~HasWidth(entry.cld) /\ ~HasHeight(entry.cld) THEN <<IssueSizing>> ELSE <<>>),
   cld |-> entry.cld,
   pageUrl |-> IF Truthy(entry.pageUrl) THEN entry.pageUrl ELSE Undefined]

\* lines 352-389: one entry of perAsset
AssetOf(entry) ==
  LET cld == entry.cld
      issues ==
        IF IsExempt(cld, entry.url) THEN <<>>
        ELSE (IF ~HasFAuto(cld) THEN <<IssueFAuto>> ELSE <<>>)
             \o (IF ~HasQAuto(cld) THEN <<IssueQAuto>> ELSE <<>>)
             \o (IF ~HasWidth(cld) /\ ~HasHeight(cld) THEN <<IssueSizing>> ELSE <<>>)
  IN [url |-> entry.url, issues |-> issues, cld |-> cld,
      pageUrl |-> IF Truthy(entry.pageUrl) THEN entry.pageUrl ELSE Undefined]

\* Math.round of the rational p / q (q > 0, p >= 0): halves go up.  The code
\* computes the score in double precision; for fewer than 18 requests the
\* double it rounds is on the same side of every half as the rational.
RoundDiv(p, q) == (2 * p + q) \div (2 * q)

\* the score with Math.floor in the place of Math.round
ScoreOfTruncated(totalAssets, cloudinaryAssets, optimizedAssets) ==
  IF cloudinaryAssets = 0 \/ totalAssets = 0 THEN 0
  ELSE Max(0, Min(100, (50 * (cloudinaryAssets * cloudinaryAssets + optimizedAssets * totalAssets))
                         \div (totalAssets * cloudinaryAssets)))

\* the score with the optimization half granted when there is no CDN asset
ScoreOfNothingToOptimize(totalAssets, cloudinaryAssets, optimizedAssets) ==
  IF totalAssets = 0 THEN 0
  ELSE IF cloudinaryAssets = 0 THEN 50
  ELSE Max(0, Min(100,
         RoundDiv(50 * (cloudinaryAssets * cloudinaryAssets + optimizedAssets * totalAssets),
                  totalAssets * cloudinaryAssets)))

\* lines 441-479: the score
ScoreOf(totalAssets, cloudinaryAssets, optimizedAssets) ==
  LET raw == IF cloudinaryAssets = 0 THEN 0
             ELSE IF totalAssets = 0 THEN 0
             \* (c / t * 100) * 0.5 + (o / c * 100) * 0.5 = 50 (c c + o t) / (t c)
             ELSE RoundDiv(50 * (cloudinaryAssets * cloudinaryAssets + optimizedAssets * totalAssets),
                           totalAssets * cloudinaryAssets)
  IN Max(0, Min(100, raw))

\* F applied to the value of v, v being evaluated once
Let(v, F(_)) == CHOOSE r \in {F(x) : x \in {v}} : TRUE

\* Set.prototype.add in insertion order
AddOnce(seq, x) == Let(seq, LAMBDA s : IF x \in Range(s) THEN s ELSE Append(s, x))

SuggestFAuto == [code |-> "Adopt f_auto to serve modern formats automatically.", n |-> 0]
SuggestQAuto == [code |-> "Adopt q_auto for balanced quality vs bytes.", n |-> 0]
SuggestMigrate == [code |-> "Migrate non-Cloudinary images to leverage optimization & CDN.", n |-> 0]
SuggestCache == [code |-> "Improve Cache-Control headers on versioned assets.", n |-> 0]
\* `Add w_, h_, and c_limit transformations to ${n} image(s) ...`
SuggestResize(n) == [code |-> "Add w_, h_, and c_limit transformations to n images", n |-> n]

\* !/max-age=/.test(cc) for a non-empty Cache-Control value
CacheSuboptimal(cc) == cc # "" /\ cc \notin {"max-age=60"}

\* a share below one half
BelowHalf(count, n) == 2 * count < n

\* lines 406 and 409: count / n < 0.8
BelowTarget(count, n) == 10 * count < 8 * n

\* lines 351-494, for the per-asset list already built
Finalized(result, perAsset) ==
  LET total == Len(perAsset)
      imageVideoAssets == SelectSeq(perAsset, LAMBDA a : ~IsExempt(a.cld, a.url))
      imageVideoCount == Len(imageVideoAssets)
      autoFormatCount == Len(SelectSeq(imageVideoAssets, LAMBDA a : HasFAuto(a.cld)))
      autoQualityCount == Len(SelectSeq(imageVideoAssets, LAMBDA a : HasQAuto(a.cld)))
      assetsNeedingSizing ==
        SelectSeq(perAsset, LAMBDA a : ~IsExempt(a.cld, a.url) /\ IssueSizing \in Range(a.issues))
      cacheFindings == SelectSeq(result.cloudinaryRequests, LAMBDA r : CacheSuboptimal(r.cc))
      s1 == IF imageVideoCount > 0 /\ BelowTarget(autoFormatCount, imageVideoCount)
            THEN AddOnce(<<>>, SuggestFAuto) ELSE <<>>
      s2 == IF imageVideoCount > 0 /\ BelowTarget(autoQualityCount, imageVideoCount)
            THEN AddOnce(s1, SuggestQAuto) ELSE s1
      s3 == IF Len(result.nonCloudinaryImages) > 0 THEN AddOnce(s2, SuggestMigrate) ELSE s2
      s4 == IF Len(assetsNeedingSizing) > 0
            THEN AddOnce(s3, SuggestResize(Len(assetsNeedingSizing))) ELSE s3
      s5 == IF Len(cacheFindings) > 0 THEN AddOnce(s4, SuggestCache) ELSE s4
      optimizedAssets ==
        Len(SelectSeq(perAsset,
              LAMBDA a : IsExempt(a.cld, a.url) \/ (HasFAuto(a.cld) /\ HasQAuto(a.cld))))
  IN [totalRequests |-> result.totalRequests,
      cloudinaryRequests |-> result.cloudinaryRequests,
      nonCloudinaryImages |-> result.nonCloudinaryImages,
      perAsset |-> perAsset,
      score |-> ScoreOf(result.totalRequests, total, optimizedAssets),
      suggestions |-> s5,
      coverage |-> [total |-> result.totalRequests,
                    cloudinary |-> total,
                    nonCloudinaryImages |-> Len(result.nonCloudinaryImages),
                    autoFormat |-> autoFormatCount,
                    autoQuality |-> autoQualityCount]]

\* finalizeAnalysis leaving its loop over the requests at the first raw or SVG one
finalizeAnalysisUpToExempt(result) ==
  LET reqs == result.cloudinaryRequests
      exempt == {k \in 1..Len(reqs) : IsExempt(reqs[k].cld, reqs[k].url)}
      n == IF exempt = {} THEN Len(reqs)
           ELSE (CHOOSE k \in exempt : \A j \in exempt : k <= j) - 1
  IN Finalized(result, [k \in 1..n |-> AssetOf(reqs[k])])

finalizeAnalysis(result) ==
  Let(result, LAMBDA res :
    Let([k \in 1..Len(res.cloudinaryRequests) |-> AssetOf(res.cloudinaryRequests[k])],
        LAMBDA perAsset : Finalized(res, perAsset)))

\* --------------------------------------------- analyzer.js: analyzeFromHtml
\* An HTML document is the sequence of its img / source / video elements; an
\* element is its src, srcset and data-src attributes, each the sequence of
\* its whitespace-separated candidates (<<>>: absent or empty).
RawAttr(el) ==
  IF el.src # <<>> THEN el.src ELSE IF el.srcset # <<>> THEN el.srcset ELSE el.dataSrc

RECURSIVE ScanElements(_, _)
ScanElements(els, out) ==
  IF els = <<>> THEN out
  ELSE LET raw == RawAttr(Head(els))
           firstUrl == raw[1]
           cld == parseCloudinaryUrl(firstUrl)
       IN ScanElements(Tail(els),
            IF raw = <<>> THEN out
            ELSE IF cld # Null
            THEN [out EXCEPT !.cloudinaryRequests =
                    Append(@, [url |-> firstUrl, cld |-> cld, pageUrl |-> Undefined, cc |-> ""])]
            ELSE IF isMediaFile(firstUrl, "")
            THEN [out EXCEPT !.nonCloudinaryImages =
                    Append(@, [url |-> firstUrl, pageUrl |-> Undefined])]
            ELSE out)

analyzeFromHtml(html) ==
  finalizeAnalysis(ScanElements(html,
    [totalRequests |-> Len(html), cloudinaryRequests |-> <<>>, nonCloudinaryImages |-> <<>>]))

\* ---------------------------------------------- analyzer.js: analyzeFromHar
\* A response of a capture is its headers (name, lower-cased, and value) and
\* the MIME type of its content ("": none); an entry without a response has
\* no headers and no MIME type.
Hdr(name, value) == [name |-> name, value |-> value]
Response(headers, mimeType) == [headers |-> headers, mimeType |-> mimeType]

\* name.startsWith("x-cld-"), on the header names of the vocabulary
StartsWithXCld(name) == name \in {"x-cld-error", "x-cld-request-id"}

\* lines 326-343
hasCloudinaryResponseHeaders(response) ==
  LET servers == SelectSeq(response.headers, LAMBDA h : h.name = "server")
  IN \/ \E k \in 1..Len(response.headers) : StartsWithXCld(response.headers[k].name)
     \/ servers # <<>> /\ servers[Len(servers)].value \in {"cloudinary"}
     \/ \E k \in 1..Len(response.headers) : response.headers[k].name = "x-cloudinary-request-id"

\* line 434: the value of the first Cache-Control header
CacheControlOf(response) ==
  LET found == SelectSeq(response.headers, LAMBDA h : h.name = "cache-control")
  IN IF found = <<>> THEN "" ELSE found[1].value

\* line 507
isCloudinary(cld, response) ==
  cld # Null /\ (hasCloudinaryResponseHeaders(response) \/ cld.txSet # {})

RECURSIVE ScanEntries(_, _)
ScanEntries(entries, out) ==
  IF entries = <<>> THEN out
  ELSE LET e == Head(entries)
           cld == parseCloudinaryUrl(e.url)
       IN ScanEntries(Tail(entries),
            IF isCloudinary(cld, e.response)
            THEN [out EXCEPT !.cloudinaryRequests =
                    Append(@, [url |-> e.url, cld |-> cld, pageUrl |-> Undefined,
                               cc |-> CacheControlOf(e.response)])]
            ELSE IF isMediaFile(e.url, e.response.mimeType)
            THEN [out EXCEPT !.nonCloudinaryImages =
                    Append(@, [url |-> e.url, pageUrl |-> Undefined])]
            ELSE out)

\* lines 496-516, for the entries of the capture
analyzeFromHar(entries) ==
  finalizeAnalysis(ScanEntries(entries,
    [totalRequests |-> Len(entries), cloudinaryRequests |-> <<>>, nonCloudinaryImages |-> <<>>]))

\* ---------------------------------------------- analyzer.js: analyzeFromUrl
\* lines 542-555: the result, or the Error thrown
analyzeFromUrl(url) ==
  LET cld == parseCloudinaryUrl(url)
  IN IF cld = Null
     THEN [ok |-> FALSE, message |-> <<"URL does not appear to be a Cloudinary delivery URL">>]
     ELSE [ok |-> TRUE,
           result |-> finalizeAnalysis(
             [totalRequests |-> 1,
              cloudinaryRequests |-> <<[url |-> url, cld |-> cld, pageUrl |-> Undefined, cc |-> ""]>>,
              nonCloudinaryImages |-> <<>>])]

\* ------------------------------------------------------ the relay's answers
\* What one relay fetch can end with: a 2xx answer with a body, a non-2xx
\* answer (its body JSON with an `error` member, or not JSON), the 25 s timer
\* aborting the request, or the request failing.
RespOk(body) == [kind |-> "ok", body |-> body]
RespHttp(status, statusText, json, errorMember) ==
  [kind |-> "http", status |-> status, statusText |-> statusText,
   json |-> json, error |-> errorMember]
RespAbort == [kind |-> "abort"]
RespNetErr == [kind |-> "neterr"]

Resp403Json == RespHttp("403", <<"Forbidden">>, TRUE, <<"Failed to fetch URL: 403 Forbidden">>)
\* an error body that is not JSON, over HTTP/2 (no status text)
Resp502Text == RespHttp("502", <<>>, FALSE, <<>>)
\* a JSON error body whose `error` member is the empty string
Resp500Blank == RespHttp("500", <<"Internal Server Error">>, TRUE, <<>>)

\* --------------------------------------------- App.jsx: fetchThroughWorker
\* the Error thrown for a non-2xx answer taking its message from the body alone
HttpErrorMessageOfBody(resp) == IF resp.json THEN resp.error ELSE resp.statusText

\* lines 391-399: the message of the Error thrown for a non-2xx answer
HttpErrorMessage(resp) ==
  LET errorMember == IF resp.json THEN resp.error ELSE resp.statusText
  IN IF errorMember # <<>> THEN errorMember
     ELSE <<"HTTP ", resp.status, ": ">> \o resp.statusText

\* what the await of fetchThroughWorker yields: the body, or the thrown message
fetchThroughWorker(configured, resp) ==
  IF ~configured THEN [ok |-> FALSE, message |-> <<"Worker not configured">>]
  ELSE CASE resp.kind = "ok" -> [ok |-> TRUE, body |-> resp.body]
         [] resp.kind = "http" -> [ok |-> FALSE, message |-> HttpErrorMessage(resp)]
         [] resp.kind = "abort" -> [ok |-> FALSE, message |-> <<"Request timeout">>]
         [] OTHER -> [ok |-> FALSE, message |-> <<"Failed to fetch">>]

\* ------------------------------------------------------------ the documents
\* A page or sitemap location is a number; 0 is a location that is empty after
\* trim().  A body is robots.txt text (its lines), an XML document (its root,
\* its `sitemap > loc` and its `url > loc` texts), an HTML document (its
\* elements) or the empty string.
RobotsBody(lines) == [kind |-> "robots", lines |-> lines]
XmlBody(root, sitemapLocs, urlLocs) ==
  [kind |-> "xml", root |-> root, sitemapLocs |-> sitemapLocs, urlLocs |-> urlLocs]
HtmlBody(els) == [kind |-> "html", els |-> els]
EmptyBody == [kind |-> "empty"]
NoBody == [kind |-> "null"]

SitemapLine(value) == [directive |-> "sitemap:", value |-> value]
OtherLine == [directive |-> "user-agent:", value |-> 1]

\* lines 412-425
parseRobotsTxt(body) ==
  IF body.kind # "robots" THEN <<>>
  ELSE LET hits == SelectSeq(body.lines, LAMBDA l : l.directive = "sitemap:" /\ l.value # 0)
       IN [k \in 1..Len(hits) |-> hits[k].value]

\* lines 712-732
parseSitemap(body) ==
  IF body.kind = "xml" /\ body.root = "sitemapindex"
  THEN [type |-> "index", urls |-> body.sitemapLocs]
  ELSE IF body.kind = "xml"
  THEN [type |-> "sitemap", urls |-> SelectSeq(body.urlLocs, LAMBDA u : u # 0)]
  ELSE [type |-> "sitemap", urls |-> <<>>]

\* ----------------------------------------- App.jsx: compileSitemapResults
\* toFixed(1) of p / q * 100 (q > 0): the digits before and after the point
ToFixed1(p, q) ==
  LET tenths == RoundDiv(1000 * p, q)
  IN [units |-> tenths \div 10, tenths |-> tenths % 10]

Percentage(count, totalPages) ==
  IF totalPages > 0 THEN ToFixed1(count, totalPages) ELSE [units |-> 0, tenths |-> 0]

TagAll(entries, pageUrl) == [k \in 1..Len(entries) |-> [entries[k] EXCEPT !.pageUrl = pageUrl]]

\* the pages' results merged without the page tag of lines 742-748
combinedResultUntagged(pageResults) ==
  [totalRequests |-> SumSeq([k \in 1..Len(pageResults) |-> pageResults[k].result.totalRequests]),
   cloudinaryRequests |->
     Flatten([k \in 1..Len(pageResults) |-> pageResults[k].result.cloudinaryRequests]),
   nonCloudinaryImages |->
     Flatten([k \in 1..Len(pageResults) |-> pageResults[k].result.nonCloudinaryImages])]

\* the pages' results merged, the total counting the pages
combinedResultCountingPages(pageResults) ==
  [totalRequests |-> Len(pageResults),
   cloudinaryRequests |->
     Flatten([k \in 1..Len(pageResults) |->
                TagAll(pageResults[k].result.cloudinaryRequests, pageResults[k].url)]),
   nonCloudinaryImages |->
     Flatten([k \in 1..Len(pageResults) |->
                TagAll(pageResults[k].result.nonCloudinaryImages, pageResults[k].url)])]

\* lines 735-750: the pages' results merged, each entry tagged with its page
combinedResult(pageResults) ==
  [totalRequests |-> SumSeq([k \in 1..Len(pageResults) |-> pageResults[k].result.totalRequests]),
   cloudinaryRequests |->
     Flatten([k \in 1..Len(pageResults) |->
                TagAll(pageResults[k].result.cloudinaryRequests, pageResults[k].url)]),
   nonCloudinaryImages |->
     Flatten([k \in 1..Len(pageResults) |->
                TagAll(pageResults[k].result.nonCloudinaryImages, pageResults[k].url)])]

\* lines 752-767
compileSitemapResults(pageResults, totalPages) ==
  Let(finalizeAnalysis(combinedResult(pageResults)), LAMBDA finalized :
    [totalRequests |-> finalized.totalRequests,
     cloudinaryRequests |-> finalized.cloudinaryRequests,
     nonCloudinaryImages |-> finalized.nonCloudinaryImages,
     perAsset |-> finalized.perAsset,
     score |-> finalized.score,
     suggestions |-> finalized.suggestions,
     coverage |-> finalized.coverage,
     isSitemapAnalysis |-> TRUE,
     sitemapStats |-> [pagesAnalyzed |-> Len(pageResults),
                       totalPagesInSitemap |-> totalPages,
                       percentage |-> Percentage(Len(pageResults), totalPages)]])

\* ------------------------------------------------- App.jsx: page sampling
\* Math.min(10, urlsToAnalyze.length)
SampleCap == 10

CountIn(s, v) == Cardinality({k \in 1..Len(s) : s[k] = v})

\* [...urls].sort(() => Math.random() - 0.5): some rearrangement of the entries
Shuffles(urls) ==
  {s \in [1..Len(urls) -> Range(urls)] : \A v \in Range(urls) : CountIn(s, v) = CountIn(urls, v)}

\* a sample drawn entry by entry, each draw from the whole list
PagesToAnalyzeWithReplacement(urls) == [1..Min(SampleCap, Len(urls)) -> Range(urls)]

\* lines 880-882: the values pagesToAnalyze can take
PagesToAnalyze(urls) ==
  {SubSeq(shuffled, 1, Min(SampleCap, Len(urls))) : shuffled \in Shuffles(urls)}

\* ------------------------------------------------------------ the inputs
\* the media URLs the pages of the model refer to
CdnUrl(txSegment, file) ==
  [valid |-> TRUE, host |-> "res.cloudinary.com",
   path |-> <<<<"demo">>, <<"image">>, <<"upload">>, txSegment, <<file>>>>]
UrlOptimized == CdnUrl(<<"f_auto", "q_auto">>, "sample.jpg")
UrlSized == CdnUrl(<<"w_500">>, "photo.png")
UrlPlainImage == [valid |-> TRUE, host |-> "example.com", path |-> <<<<"img">>, <<"photo.png">>>>]
UrlScript == [valid |-> TRUE, host |-> "example.com", path |-> <<<<"app.js">>>>]

Img(url) == [src |-> <<url>>, srcset |-> <<>>, dataSrc |-> <<>>]
PageA == HtmlBody(<<Img(UrlOptimized), Img(UrlPlainImage)>>)
PageB == HtmlBody(<<Img(UrlSized), [src |-> <<>>, srcset |-> <<>>, dataSrc |-> <<>>]>>)
PageNoMedia == HtmlBody(<<Img(UrlScript)>>)

\* analyzeFromHtml of a fetched body: text that is no HTML has no media
\* elements; the analyses of the pages of the model are computed once
HtmlPages == {PageA, PageB, PageNoMedia}
analyzedPages == [body \in HtmlPages |-> analyzeFromHtml(body.els)]
analyzeBody(body) ==
  IF body \in HtmlPages THEN analyzedPages[body]
  ELSE analyzeFromHtml(IF body.kind = "html" THEN body.els ELSE <<>>)

\* the url-set and index documents a sitemap fetch can return
Ramp(n) == [k \in 1..n |-> k]
UrlSetDocs ==
  {XmlBody("urlset", <<>>, Ramp(n)) : n \in 0..MaxPages} \cup {XmlBody("urlset", <<>>, <<1, 0>>)}
IndexDocs ==
  {XmlBody("sitemapindex", locs, <<>>) : locs \in {<<>>, <<2>>, <<2, 1>>}}

\* what the relay can answer to each kind of fetch
RobotsResponses ==
  {RespOk(RobotsBody(<<OtherLine>>)),
   RespOk(RobotsBody(<<OtherLine, SitemapLine(0), SitemapLine(1), SitemapLine(2)>>)),
   RespOk(PageA),
   RespNetErr}
SitemapResponses ==
  {RespOk(d) : d \in UrlSetDocs \cup IndexDocs} \cup {RespOk(EmptyBody), RespOk(PageA), Resp403Json, RespAbort}
PageResponses == {RespOk(PageA), RespOk(PageB), Resp403Json, Resp502Text, RespAbort}
SingleResponses == {RespOk(PageA), RespOk(PageNoMedia), Resp500Blank, RespNetErr}

\* the site URL typed by the user: empty after trim(), rejected by new URL(), or fine
SiteInputs == {"empty", "unparsable", "ok"}

\* the locations the handler itself builds
SiteUrl == 100
RobotsUrl == 101
DefaultSitemapUrl == 102

\* ------------------------------------------------------------- the state
VARIABLES
  workerConfigured,   \* import.meta.env.VITE_WORKER_URL passes the check of lines 801-803
  siteUrl,            \* React state: what the user typed (one of SiteInputs)
  pc,                 \* where handleSiteUrlAnalyze is suspended ("idle": not running)
  loc,                \* its local variables
  run,                \* cancel tokens created so far; the running invocation owns token `run`
  tokens,             \* tokens[k]: the `cancelled` member of the k-th cancel token
  sitemapCancelToken, \* React state: the stored token (0: null)
  isBusy, error, status, analysis, sitemapProgress,   \* React state
  inflight,           \* relay requests issued and not yet settled
  timers,             \* armed and uncleared 25 s timers of fetchThroughWorker
  fetches,            \* the relay requests the invocation has issued, in order
  pageLog,            \* the page fetches that have settled: the page and the relay's answer
  outcome,            \* how the last invocation ended ("none": running, or none yet)
  htmlInput,          \* React state: the markup pasted
  deliveryUrl,        \* React state: the delivery URL typed
  harJson,            \* the content of the capture file chosen
  relay               \* the relay (worker/index.js): the request it serves and its answer

vars == <<workerConfigured, siteUrl, pc, loc, run, tokens, sitemapCancelToken, isBusy, error,
          status, analysis, sitemapProgress, inflight, timers, fetches, pageLog, outcome,
          htmlInput, deliveryUrl, harJson, relay>>

\* what the user supplies on the tabs other than the website tab
userInputs == <<htmlInput, deliveryUrl, harJson>>

\* no file chosen
NoFile == [kind |-> "none"]

\* the relay before a request has reached it
NoRequest == [method |-> "", pathname |-> "", targetUrl |-> [given |-> FALSE, text |-> ""]]
NoAnswer == [status |-> 0, json |-> FALSE, error |-> <<>>, body |-> <<>>]
\* upstream: the targets it has fetched for the request; settled: what that fetch gave
NoUpstream == [kind |-> "none"]
RelayIdle ==
  [pc |-> "idle", request |-> NoRequest, upstream |-> <<>>, settled |-> NoUpstream,
   answer |-> NoAnswer]

\* a relay request: the id is its position among the requests of the invocation
Req(id, purpose, url) == [id |-> id, purpose |-> purpose, url |-> url]
NoReq == Req(0, "none", 0)

ZeroProgress == [current |-> 0, total |-> 0, totalPages |-> 0, completed |-> <<>>, failed |-> <<>>]

IdleLoc ==
  [awaiting |-> NoReq, urlsToAnalyze |-> <<>>, pagesToAnalyze |-> <<>>, totalPages |-> 0,
   i |-> 0, allResults |-> <<>>]

AwaitPcs == {"awaitRobots", "awaitDefault", "awaitSitemap", "awaitChild", "awaitPage",
             "awaitDelay", "awaitSingle"}

Init ==
  /\ workerConfigured \in BOOLEAN
  /\ siteUrl = "empty"
  /\ pc = "idle"
  /\ loc = IdleLoc
  /\ run = 0
  /\ tokens = <<>>
  /\ sitemapCancelToken = 0
  /\ isBusy = FALSE
  /\ error = <<>>
  /\ status = ""
  /\ analysis = Null
  /\ sitemapProgress = ZeroProgress
  /\ inflight = {}
  /\ timers = 0
  /\ fetches = <<>>
  /\ pageLog = <<>>
  /\ outcome = "none"
  /\ htmlInput = EmptyBody
  /\ deliveryUrl = EmptyUrl
  /\ harJson = NoFile
  /\ relay = RelayIdle

\* cancelToken.cancelled of the running invocation
Cancelled == tokens[run]

\* --------------------------------------------- the ways the handler ends
\* a finally block that leaves the stored cancel token in place
FinallyKeepingToken ==
  /\ isBusy' = FALSE
  /\ UNCHANGED sitemapCancelToken
  /\ pc' = "idle"
  /\ loc' = [loc EXCEPT !.awaiting = NoReq]

\* the finally block of lines 989-992; the locals keep the values they had
Finally ==
  /\ isBusy' = FALSE
  /\ sitemapCancelToken' = 0
  /\ pc' = "idle"
  /\ loc' = [loc EXCEPT !.awaiting = NoReq]

\* `if (cancelToken.cancelled) return;`
ReturnCancelled(newStatus) ==
  /\ Finally
  /\ outcome' = "Cancelled"
  /\ status' = newStatus
  /\ UNCHANGED <<error, analysis>>

\* setError(...); setStatus(""); setIsBusy(false); return;
ReportError(message) ==
  /\ Finally
  /\ outcome' = "Failed"
  /\ error' = message
  /\ status' = ""
  /\ UNCHANGED analysis

DefaultErrorMessage ==
  <<"Failed to fetch or analyze the website. Please try using a HAR file or paste HTML directly.">>

\* an exception reaching the catch of lines 973-988
ThrowToCatch(message) == ReportError(IF Len(message) > 0 THEN message ELSE DefaultErrorMessage)

\* setAnalysis(result); setStatus(...); and the return
Publish(result, newStatus) ==
  /\ Finally
  /\ outcome' = "Done"
  /\ analysis' = result
  /\ status' = newStatus
  /\ UNCHANGED error

\* the handler goes on to its next await
Continue(newPc, newLoc, newStatus) ==
  /\ pc' = newPc
  /\ loc' = newLoc
  /\ status' = newStatus
  /\ UNCHANGED <<isBusy, sitemapCancelToken, outcome, error, analysis>>

\* the network side of a step: the requests in `done` have settled (their
\* timers cleared), the requests of the sequence `req` are issued
Net(done, req) ==
  /\ inflight' = (inflight \ done) \cup Range(req)
  /\ timers' = timers - Cardinality(done \cap inflight) + Len(req)
  /\ fetches' = fetches \o req

\* fetchThroughWorker(url) up to its await: nothing is sent when the relay is not configured
Issue(purpose, url) ==
  IF workerConfigured THEN <<Req(Len(fetches) + 1, purpose, url)>> ELSE <<>>
Awaited(purpose, url) == Req(Len(fetches) + 1, purpose, url)

\* lines 945-949: the single-page fallback
GoSinglePage(done, l) ==
  IF Cancelled
  THEN ReturnCancelled(status) /\ Net(done, <<>>)
  ELSE /\ Continue("awaitSingle", [l EXCEPT !.awaiting = Awaited("single", SiteUrl)], "Fetching site")
       /\ Net(done, Issue("single", SiteUrl))

\* line 876: sample the pages, or fall back
GoUrls(done, l, urls) ==
  IF Len(urls) > 0 /\ ~Cancelled
  THEN /\ Continue("sampling", [l EXCEPT !.urlsToAnalyze = urls, !.awaiting = NoReq], status)
       /\ Net(done, <<>>)
  ELSE GoSinglePage(done, l)

\* of an index the last child is fetched
GoParsedLastChild(done, l, sitemapXml) ==
  IF Cancelled
  THEN ReturnCancelled(status) /\ Net(done, <<>>)
  ELSE LET sitemapData == parseSitemap(sitemapXml)
           last == Len(sitemapData.urls)
       IN IF sitemapData.type = "index"
          THEN IF Len(sitemapData.urls) > 0
               THEN /\ Continue("awaitChild",
                                [l EXCEPT !.awaiting = Awaited("child", sitemapData.urls[last])],
                                "Fetching first sitemap from index...")
                    /\ Net(done, Issue("child", sitemapData.urls[last]))
               ELSE GoUrls(done, l, <<>>)
          ELSE GoUrls(done, l, sitemapData.urls)

\* lines 858-874: the sitemap document is at hand
GoParsed(done, l, sitemapXml) ==
  IF Cancelled
  THEN ReturnCancelled(status) /\ Net(done, <<>>)
  ELSE LET sitemapData == parseSitemap(sitemapXml)
       IN IF sitemapData.type = "index"
          THEN IF Len(sitemapData.urls) > 0
               THEN /\ Continue("awaitChild",
                                [l EXCEPT !.awaiting = Awaited("child", sitemapData.urls[1])],
                                "Fetching first sitemap from index...")
                    /\ Net(done, Issue("child", sitemapData.urls[1]))
               ELSE GoUrls(done, l, <<>>)
          ELSE GoUrls(done, l, sitemapData.urls)

\* lines 852-857: a sitemap was found (sitemapUrl # 0) or not
GoSitemap(done, l, sitemapUrl, sitemapXml) ==
  IF sitemapUrl # 0 /\ ~Cancelled
  THEN IF sitemapXml.kind \in {"null", "empty"}
       THEN /\ Continue("awaitSitemap", [l EXCEPT !.awaiting = Awaited("sitemap", sitemapUrl)],
                        "Fetching sitemap...")
            /\ Net(done, Issue("sitemap", sitemapUrl))
       ELSE GoParsed(done, l, sitemapXml)
  ELSE GoSinglePage(done, l)

\* --------------------------------------- App.jsx: handleSiteUrlAnalyze
\* lines 770-817 (and 945-949 when the sitemap box is not ticked): from the
\* click to the first await, or to the end when the input is rejected
\* urlThrows: `new URL(url)` of line 789 rejects the address
BeginAnalyze(input, useSitemap, urlThrows) ==
  /\ pc = "idle"
  /\ ~isBusy
  /\ pageLog' = <<>>
  /\ IF input = "empty"
     THEN /\ error' = <<"Enter a website URL first.">>
          /\ outcome' = "Failed"
          /\ fetches' = <<>>
          /\ UNCHANGED <<workerConfigured, userInputs, relay, pc, loc, run, tokens, sitemapCancelToken, isBusy,
                         status, analysis, sitemapProgress, inflight, timers>>
     ELSE /\ run' = run + 1
          /\ tokens' = Append(tokens, FALSE)
          /\ sitemapProgress' = ZeroProgress
          /\ UNCHANGED <<workerConfigured, userInputs, relay, analysis>>
          /\ IF urlThrows
             THEN \* new URL(url) throws
                  /\ Finally
                  /\ outcome' = "Failed"
                  /\ error' = <<"Invalid URL">>
                  /\ status' = ""
                  /\ fetches' = <<>>
                  /\ UNCHANGED <<inflight, timers>>
             ELSE IF ~workerConfigured
             THEN /\ Finally
                  /\ outcome' = "Failed"
                  /\ error' = <<"Website URL fetching is not configured.">>
                  /\ status' = ""
                  /\ fetches' = <<>>
                  /\ UNCHANGED <<inflight, timers>>
             ELSE LET req == IF useSitemap THEN Req(1, "robots", RobotsUrl)
                                            ELSE Req(1, "single", SiteUrl)
                  IN /\ isBusy' = TRUE
                     /\ sitemapCancelToken' = run + 1
                     /\ error' = <<>>
                     /\ outcome' = "none"
                     /\ status' = (IF useSitemap THEN "Checking robots.txt for sitemap..."
                                   ELSE "Fetching site")
                     /\ pc' = (IF useSitemap THEN "awaitRobots" ELSE "awaitSingle")
                     /\ loc' = [IdleLoc EXCEPT !.awaiting = req]
                     /\ inflight' = inflight \cup {req}
                     /\ timers' = timers + 1
                     /\ fetches' = <<req>>

\* the handler with the address never handed to new URL()
handleSiteUrlAnalyzeUnparsed(input, useSitemap) == BeginAnalyze(input, useSitemap, FALSE)

handleSiteUrlAnalyze(input, useSitemap) == BeginAnalyze(input, useSitemap, input = "unparsable")

\* the user types the address (onChange of the input) and clicks Analyze
Start(input, useSitemap) ==
  /\ siteUrl' = input
  /\ handleSiteUrlAnalyze(input, useSitemap)

\* lines 817-833: robots.txt arrives, or its fetch fails (swallowed)
RobotsReturns(resp) ==
  /\ pc = "awaitRobots"
  /\ LET r == fetchThroughWorker(workerConfigured, resp)
         sitemaps == IF r.ok THEN parseRobotsTxt(r.body) ELSE <<>>
         sitemapUrl == IF Len(sitemaps) > 0 THEN sitemaps[1] ELSE 0
     IN IF sitemapUrl = 0
        THEN /\ Continue("awaitDefault",
                         [loc EXCEPT !.awaiting = Awaited("default", DefaultSitemapUrl)],
                         "Checking domain/sitemap.xml...")
             /\ Net({loc.awaiting}, Issue("default", DefaultSitemapUrl))
        ELSE GoSitemap({loc.awaiting}, loc, sitemapUrl, NoBody)
  /\ UNCHANGED <<workerConfigured, userInputs, relay, siteUrl, run, tokens, sitemapProgress, pageLog>>

\* lines 833-852: /sitemap.xml arrives, or its fetch fails (swallowed)
DefaultReturns(resp) ==
  /\ pc = "awaitDefault"
  /\ LET r == fetchThroughWorker(workerConfigured, resp)
         found == /\ r.ok
                  /\ r.body.kind # "empty"
                  /\ Len(parseSitemap(r.body).urls) > 0
     IN GoSitemap({loc.awaiting}, loc,
                  IF found THEN DefaultSitemapUrl ELSE 0,
                  IF found THEN r.body ELSE NoBody)
  /\ UNCHANGED <<workerConfigured, userInputs, relay, siteUrl, run, tokens, sitemapProgress, pageLog>>

\* lines 856-876: the sitemap robots.txt declares arrives, or its fetch throws
SitemapReturns(resp) ==
  /\ pc = "awaitSitemap"
  /\ LET r == fetchThroughWorker(workerConfigured, resp)
     IN IF ~r.ok
        THEN ThrowToCatch(r.message) /\ Net({loc.awaiting}, <<>>)
        ELSE GoParsed({loc.awaiting}, loc, r.body)
  /\ UNCHANGED <<workerConfigured, userInputs, relay, siteUrl, run, tokens, sitemapProgress, pageLog>>

\* lines 867-876: the first child of the index arrives, or its fetch throws
ChildReturns(resp) ==
  /\ pc = "awaitChild"
  /\ LET r == fetchThroughWorker(workerConfigured, resp)
     IN IF ~r.ok
        THEN ThrowToCatch(r.message) /\ Net({loc.awaiting}, <<>>)
        ELSE IF Cancelled
        THEN ReturnCancelled(status) /\ Net({loc.awaiting}, <<>>)
        ELSE GoUrls({loc.awaiting}, loc, parseSitemap(r.body).urls)
  /\ UNCHANGED <<workerConfigured, userInputs, relay, siteUrl, run, tokens, sitemapProgress, pageLog>>

\* lines 877-897: the pages are sampled and the progress panel is set up
Sampling ==
  /\ pc = "sampling"
  /\ \E pagesToAnalyze \in PagesToAnalyze(loc.urlsToAnalyze) :
       /\ loc' = [loc EXCEPT !.totalPages = Len(loc.urlsToAnalyze),
                             !.pagesToAnalyze = pagesToAnalyze,
                             !.i = 0,
                             !.allResults = <<>>]
       /\ sitemapProgress' = [current |-> 0, total |-> Len(pagesToAnalyze),
                              totalPages |-> Len(loc.urlsToAnalyze),
                              completed |-> <<>>, failed |-> <<>>]
  /\ pc' = "loopTop"
  /\ status' = "Analyzing random pages"
  /\ UNCHANGED <<workerConfigured, userInputs, relay, siteUrl, run, tokens, sitemapCancelToken, isBusy, error,
                 analysis, inflight, timers, fetches, pageLog, outcome>>

\* LoopTop with the fetch fired and not awaited
LoopTopNoAwait ==
  /\ pc = "loopTop"
  /\ IF loc.i < Len(loc.pagesToAnalyze)
     THEN IF Cancelled
          THEN /\ ReturnCancelled("Analysis cancelled.")
               /\ Net({}, <<>>)
               /\ UNCHANGED sitemapProgress
          ELSE LET pageUrl == loc.pagesToAnalyze[loc.i + 1]
               IN /\ Continue("loopTop", [loc EXCEPT !.i = @ + 1], "Analyzing page")
                  /\ sitemapProgress' = [sitemapProgress EXCEPT !.current = loc.i + 1]
                  /\ Net({}, Issue("page", pageUrl))
     ELSE /\ IF Cancelled THEN ReturnCancelled(status) ELSE Continue("compiling", loc, status)
          /\ Net({}, <<>>)
          /\ UNCHANGED sitemapProgress
  /\ UNCHANGED <<workerConfigured, userInputs, relay, siteUrl, run, tokens, pageLog>>

\* LoopTop without the check of line 900
LoopTopNoCancelCheck ==
  /\ pc = "loopTop"
  /\ IF loc.i < Len(loc.pagesToAnalyze)
     THEN LET pageUrl == loc.pagesToAnalyze[loc.i + 1]
          IN /\ Continue("awaitPage", [loc EXCEPT !.awaiting = Awaited("page", pageUrl)],
                         "Analyzing page")
             /\ sitemapProgress' = [sitemapProgress EXCEPT !.current = loc.i + 1]
             /\ Net({}, Issue("page", pageUrl))
     ELSE /\ IF Cancelled THEN ReturnCancelled(status) ELSE Continue("compiling", loc, status)
          /\ Net({}, <<>>)
          /\ UNCHANGED sitemapProgress
  /\ UNCHANGED <<workerConfigured, userInputs, relay, siteUrl, run, tokens, pageLog>>

\* LoopTop without the check of line 934
LoopTopNoFinalCheck ==
  /\ pc = "loopTop"
  /\ IF loc.i < Len(loc.pagesToAnalyze)
     THEN IF Cancelled
          THEN /\ ReturnCancelled("Analysis cancelled.")
               /\ Net({}, <<>>)
               /\ UNCHANGED sitemapProgress
          ELSE LET pageUrl == loc.pagesToAnalyze[loc.i + 1]
               IN /\ Continue("awaitPage", [loc EXCEPT !.awaiting = Awaited("page", pageUrl)],
                              "Analyzing page")
                  /\ sitemapProgress' = [sitemapProgress EXCEPT !.current = loc.i + 1]
                  /\ Net({}, Issue("page", pageUrl))
     ELSE /\ Continue("compiling", loc, status)
          /\ Net({}, <<>>)
          /\ UNCHANGED sitemapProgress
  /\ UNCHANGED <<workerConfigured, userInputs, relay, siteUrl, run, tokens, pageLog>>

\* lines 899-911 and 934: the head of the loop, up to the fetch of page i
LoopTop ==
  /\ pc = "loopTop"
  /\ IF loc.i < Len(loc.pagesToAnalyze)
     THEN IF Cancelled
          THEN /\ ReturnCancelled("Analysis cancelled.")
               /\ Net({}, <<>>)
               /\ UNCHANGED sitemapProgress
          ELSE LET pageUrl == loc.pagesToAnalyze[loc.i + 1]
               IN /\ Continue("awaitPage", [loc EXCEPT !.awaiting = Awaited("page", pageUrl)],
                              "Analyzing page")
                  /\ sitemapProgress' = [sitemapProgress EXCEPT !.current = loc.i + 1]
                  /\ Net({}, Issue("page", pageUrl))
     ELSE /\ IF Cancelled THEN ReturnCancelled(status) ELSE Continue("compiling", loc, status)
          /\ Net({}, <<>>)
          /\ UNCHANGED sitemapProgress
  /\ UNCHANGED <<workerConfigured, userInputs, relay, siteUrl, run, tokens, pageLog>>

\* PageReturns with the failure of a page rethrown
PageReturnsAborting(resp) ==
  /\ pc = "awaitPage"
  /\ LET r == fetchThroughWorker(workerConfigured, resp)
         pageUrl == loc.pagesToAnalyze[loc.i + 1]
     IN IF r.ok
        THEN IF Cancelled
             THEN /\ ReturnCancelled(status)
                  /\ UNCHANGED sitemapProgress
             ELSE LET pushed == [loc EXCEPT !.awaiting = NoReq,
                                            !.allResults = Append(@, [url |-> pageUrl,
                                                                      result |-> analyzeBody(r.body)])]
                  IN /\ sitemapProgress' = [sitemapProgress EXCEPT !.completed = Append(@, pageUrl)]
                     /\ IF loc.i < Len(loc.pagesToAnalyze) - 1
                        THEN Continue("awaitDelay", pushed, status)
                        ELSE Continue("loopTop", [pushed EXCEPT !.i = @ + 1], status)
        ELSE /\ ThrowToCatch(r.message)
             /\ UNCHANGED sitemapProgress
  /\ Net({loc.awaiting}, <<>>)
  /\ pageLog' = Append(pageLog, [url |-> loc.pagesToAnalyze[loc.i + 1], resp |-> resp])
  /\ UNCHANGED <<workerConfigured, userInputs, relay, siteUrl, run, tokens>>

\* lines 911-931: the page arrives and is analysed, or its fetch throws
PageReturns(resp) ==
  /\ pc = "awaitPage"
  /\ LET r == fetchThroughWorker(workerConfigured, resp)
         pageUrl == loc.pagesToAnalyze[loc.i + 1]
     IN IF r.ok
        THEN IF Cancelled
             THEN /\ ReturnCancelled(status)
                  /\ UNCHANGED sitemapProgress
             ELSE LET pushed == [loc EXCEPT !.awaiting = NoReq,
                                            !.allResults = Append(@, [url |-> pageUrl,
                                                                      result |-> analyzeBody(r.body)])]
                  IN /\ sitemapProgress' = [sitemapProgress EXCEPT !.completed = Append(@, pageUrl)]
                     /\ IF loc.i < Len(loc.pagesToAnalyze) - 1
                        THEN Continue("awaitDelay", pushed, status)
                        ELSE Continue("loopTop", [pushed EXCEPT !.i = @ + 1], status)
        ELSE /\ sitemapProgress' =
                  [sitemapProgress EXCEPT !.failed = Append(@, [url |-> pageUrl, error |-> r.message])]
             /\ Continue("loopTop", [loc EXCEPT !.awaiting = NoReq, !.i = @ + 1], status)
  /\ Net({loc.awaiting}, <<>>)
  /\ pageLog' = Append(pageLog, [url |-> loc.pagesToAnalyze[loc.i + 1], resp |-> resp])
  /\ UNCHANGED <<workerConfigured, userInputs, relay, siteUrl, run, tokens>>

\* line 923: the 2 s delay between two pages is over
DelayElapses ==
  /\ pc = "awaitDelay"
  /\ Continue("loopTop", [loc EXCEPT !.i = @ + 1], status)
  /\ UNCHANGED <<workerConfigured, userInputs, relay, siteUrl, run, tokens, sitemapProgress, inflight, timers,
                 fetches, pageLog>>

\* the compile step refusing an empty set of results, as the single-page path does
CompileRejectingEmpty ==
  /\ pc = "compiling"
  /\ IF loc.allResults = <<>>
     THEN ReportError(<<"No images or assets were found in the analysis.">>)
     ELSE Publish(compileSitemapResults(loc.allResults, loc.totalPages), "Analysis complete")
  /\ UNCHANGED <<workerConfigured, userInputs, relay, siteUrl, run, tokens, sitemapProgress, inflight, timers,
                 fetches, pageLog>>

\* lines 936-941
Compile ==
  /\ pc = "compiling"
  /\ Publish(compileSitemapResults(loc.allResults, loc.totalPages), "Analysis complete")
  /\ UNCHANGED <<workerConfigured, userInputs, relay, siteUrl, run, tokens, sitemapProgress, inflight, timers,
                 fetches, pageLog>>

\* lines 949-972: the single page arrives, or its fetch throws
SingleReturns(resp) ==
  /\ pc = "awaitSingle"
  /\ LET r == fetchThroughWorker(workerConfigured, resp)
     IN IF ~r.ok
        THEN ThrowToCatch(r.message)
        ELSE IF Cancelled
        THEN ReturnCancelled(status)
        ELSE LET result == analyzeBody(r.body)
                 totalAssets == Len(result.perAsset) + Len(result.nonCloudinaryImages)
             IN IF totalAssets = 0
                THEN ReportError(<<"No images or assets were found in the analysis.">>)
                ELSE Publish(result, "Analyzed site")
  /\ Net({loc.awaiting}, <<>>)
  /\ UNCHANGED <<workerConfigured, userInputs, relay, siteUrl, run, tokens, sitemapProgress, pageLog>>

\* lines 1305-1316: the Cancel button, shown while sitemapProgress.total > 0;
\* a click is handled only while the handler is suspended or not running
Cancel ==
  /\ sitemapProgress.total > 0
  /\ pc \in AwaitPcs \cup {"idle"}
  /\ tokens' = IF sitemapCancelToken # 0
               THEN [tokens EXCEPT ![sitemapCancelToken] = TRUE] ELSE tokens
  /\ sitemapProgress' = ZeroProgress
  /\ UNCHANGED <<workerConfigured, userInputs, relay, siteUrl, pc, loc, run, sitemapCancelToken, isBusy, error,
                 status, analysis, inflight, timers, fetches, pageLog, outcome>>

\* Spec follows the application from its construction through its first
\* invocation of the handler that passes the empty-input check
Next ==
  \/ \E input \in SiteInputs, useSitemap \in BOOLEAN : run = 0 /\ Start(input, useSitemap)
  \/ \E resp \in RobotsResponses : RobotsReturns(resp)
  \/ \E resp \in SitemapResponses : DefaultReturns(resp)
  \/ \E resp \in SitemapResponses : SitemapReturns(resp)
  \/ \E resp \in SitemapResponses : ChildReturns(resp)
  \/ Sampling
  \/ LoopTop
  \/ \E resp \in PageResponses : PageReturns(resp)
  \/ DelayElapses
  \/ Compile
  \/ \E resp \in SingleResponses : SingleReturns(resp)
  \/ Cancel

Spec == Init /\ [][Next]_vars

\* SpecRuns follows the application through MaxRuns invocations of the
\* handler, one after the other (the Analyze button is disabled while isBusy):
\* robots.txt declares a sitemap of two pages, and each fetch after it ends
\* well or badly
MaxRuns == 2
RunSitemapResponses == {RespOk(XmlBody("urlset", <<>>, <<1, 2>>)), RespAbort}
RunPageResponses == {RespOk(PageA), Resp403Json}
RunSingleResponses == {RespOk(PageA), RespOk(PageNoMedia), RespNetErr}

NextRuns ==
  \/ \E input \in SiteInputs, useSitemap \in BOOLEAN : run < MaxRuns /\ Start(input, useSitemap)
  \/ RobotsReturns(RespOk(RobotsBody(<<SitemapLine(1)>>)))
  \/ \E resp \in RunSitemapResponses : SitemapReturns(resp)
  \/ Sampling
  \/ LoopTop
  \/ \E resp \in RunPageResponses : PageReturns(resp)
  \/ DelayElapses
  \/ Compile
  \/ \E resp \in RunSingleResponses : SingleReturns(resp)
  \/ Cancel

SpecRuns == Init /\ [][NextRuns]_vars

\* every await of the handler settles: a relay fetch ends with an answer, an
\* error or the 25 s abort, and the timer of delay() fires
Progress ==
  \/ \E resp \in RobotsResponses : RobotsReturns(resp)
  \/ \E resp \in SitemapResponses : DefaultReturns(resp)
  \/ \E resp \in SitemapResponses : SitemapReturns(resp)
  \/ \E resp \in SitemapResponses : ChildReturns(resp)
  \/ Sampling
  \/ LoopTop
  \/ \E resp \in PageResponses : PageReturns(resp)
  \/ DelayElapses
  \/ Compile
  \/ \E resp \in SingleResponses : SingleReturns(resp)

SpecLive == Spec /\ WF_vars(Progress)

\* SpecSample follows the handler from line 876 on, for sitemaps of up to
\* MaxDiscovered pages: robots.txt has declared a sitemap, the sitemap has
\* listed the pages (two addresses, each any number of times), and every
\* page fetch runs into the 25 s timeout
SampleUrlSets ==
  {[k \in 1..n |-> IF k <= a THEN 1 ELSE 2] : n \in 1..MaxDiscovered, a \in 0..MaxDiscovered}

InitSample ==
  /\ workerConfigured = TRUE
  /\ siteUrl = "ok"
  /\ pc = "sampling"
  /\ loc \in {[IdleLoc EXCEPT !.urlsToAnalyze = urls] : urls \in SampleUrlSets}
  /\ run = 1
  /\ tokens = <<FALSE>>
  /\ sitemapCancelToken = 1
  /\ isBusy = TRUE
  /\ error = <<>>
  /\ status = "Fetching sitemap..."
  /\ analysis = Null
  /\ sitemapProgress = ZeroProgress
  /\ inflight = {}
  /\ timers = 0
  /\ fetches = <<Req(1, "robots", RobotsUrl), Req(2, "sitemap", 1)>>
  /\ pageLog = <<>>
  /\ outcome = "none"
  /\ htmlInput = EmptyBody
  /\ deliveryUrl = EmptyUrl
  /\ harJson = NoFile
  /\ relay = RelayIdle

NextSample ==
  \/ Sampling
  \/ LoopTop
  \/ PageReturns(RespAbort)
  \/ Compile

SpecSample == InitSample /\ [][NextSample]_vars

\* ------------------------------------------- the inputs of the other tabs
UrlFormatOnly == CdnUrl(<<"f_auto", "w_500">>, "photo.png")
UrlQuality == CdnUrl(<<"q_auto:good", "h_300">>, "sample.jpg")
UrlCropped == CdnUrl(<<"c_fill">>, "sample.jpg")
UrlSvg == CdnUrl(<<"w_500">>, "logo.svg")
UrlNoTx ==
  [valid |-> TRUE, host |-> "res.cloudinary.com",
   path |-> <<<<"demo">>, <<"image">>, <<"upload">>, <<"sample.jpg">>>>]
UrlRaw ==
  [valid |-> TRUE, host |-> "res.cloudinary.com",
   path |-> <<<<"demo">>, <<"raw">>, <<"upload">>, <<"notes.txt">>>>]
UrlPdf == [valid |-> TRUE, host |-> "example.com", path |-> <<<<"img">>, <<"report.pdf">>>>]
UrlNoExt == [valid |-> TRUE, host |-> "example.com", path |-> <<<<"img">>, <<"demo">>>>]
UrlTracker == [valid |-> TRUE, host |-> "doubleclick.net", path |-> <<<<"img">>, <<"photo.png">>>>]
\* a video delivered from a custom domain
UrlCnameVideo ==
  [valid |-> TRUE, host |-> "media.example.com",
   path |-> <<<<"assets">>, <<"w_500", "c_fill">>, <<"clip.mp4">>>>]
\* a string new URL() rejects
InvalidUrl == [valid |-> FALSE, host |-> "", path |-> <<>>]

Entry(url, response) == [url |-> url, response |-> response]
NoResponse == Response(<<>>, "")

\* what JSON.parse makes of the file chosen: a capture, or a SyntaxError
Har(entries) == [kind |-> "har", entries |-> entries]
NotJson == [kind |-> "notjson"]

\* captures of up to MaxEntries media requests without response metadata
ScoreEntries ==
  {Entry(u, NoResponse) : u \in {UrlOptimized, UrlSized, UrlFormatOnly, UrlSvg, UrlPlainImage}}
ScoreHars == {Har(es) : es \in UNION {[1..n -> ScoreEntries] : n \in 0..MaxEntries}}

\* ten requests: five optimized CDN images, five images served from elsewhere
ScenarioHar ==
  Har([k \in 1..10 |-> Entry(IF k <= 5 THEN UrlOptimized ELSE UrlPlainImage, NoResponse)])

\* captures of one request: every URL of ModeUrls with every response of ModeResponses
ModeUrls ==
  {UrlOptimized, UrlQuality, UrlCropped, UrlSvg, UrlNoTx, UrlRaw, UrlPlainImage, UrlPdf,
   UrlNoExt, UrlTracker, UrlScript}
ModeResponses ==
  {NoResponse,
   Response(<<>>, "image/png"),
   Response(<<>>, "application/pdf"),
   Response(<<Hdr("server", "cloudinary")>>, "image/png"),
   Response(<<Hdr("x-cld-error", "1")>>, ""),
   Response(<<Hdr("x-cloudinary-request-id", "1")>>, ""),
   Response(<<Hdr("server", "nginx"), Hdr("cache-control", "no-cache")>>, "video/mp4")}
ModeHars == {Har(<<Entry(u, r)>>) : u \in ModeUrls \cup {EmptyUrl}, r \in ModeResponses}

\* the delivery URLs: every path of up to MaxSegments segments of Segs
Segs ==
  {<<"demo">>, <<"image">>, <<"raw">>, <<"upload">>, <<"f_auto", "q_auto">>, <<"w_100;h_50">>,
   <<"v1">>, <<"sample.jpg">>}
DeliveryUrls ==
  {[valid |-> TRUE, host |-> "media.example.com", path |-> p] :
     p \in UNION {[1..n -> Segs] : n \in 0..MaxSegments}} \cup {InvalidUrl, UrlCnameVideo}

\* the state of the crawl, which the handlers of the other tabs leave alone
crawlVars ==
  <<workerConfigured, siteUrl, loc, run, tokens, sitemapCancelToken, sitemapProgress,
    inflight, timers, fetches, pageLog, outcome>>

\* -------------------------------------------------- App.jsx: handleHarUpload
\* lines 319-326: a file is chosen, the handler waits for its text
handleHarUpload ==
  /\ pc = "idle"
  /\ ~isBusy
  /\ IF harJson = NoFile
     THEN UNCHANGED <<pc, isBusy, error, status>>
     ELSE /\ pc' = "awaitFile"
          /\ isBusy' = TRUE
          /\ error' = <<>>
          /\ status' = "Reading file"
  /\ UNCHANGED <<crawlVars, userInputs, relay, analysis>>

\* lines 326-341: the text is there; it is parsed and analysed, or the catch reports
FileRead ==
  /\ pc = "awaitFile"
  /\ IF harJson.kind = "har"
     THEN /\ analysis' = analyzeFromHar(harJson.entries)
          /\ status' = "Analyzed file"
          /\ UNCHANGED error
     ELSE /\ error' = <<"Failed to parse HAR file. Please ensure it's a valid HAR file.">>
          /\ status' = ""
          /\ UNCHANGED analysis
  /\ isBusy' = FALSE
  /\ pc' = "idle"
  /\ UNCHANGED <<crawlVars, userInputs, relay>>

\* ------------------------------------------------ App.jsx: handleHtmlAnalyze
\* lines 344-367
handleHtmlAnalyze ==
  /\ pc = "idle"
  /\ ~isBusy
  /\ IF htmlInput.kind = "empty"
     THEN /\ error' = <<"Paste some HTML first.">>
          /\ UNCHANGED <<status, analysis>>
     ELSE /\ analysis' = analyzeFromHtml(htmlInput.els)
          /\ error' = <<>>
          /\ status' = "HTML scan complete."
  /\ UNCHANGED <<crawlVars, userInputs, relay, pc, isBusy>>

\* ----------------------------------------- App.jsx: handleDeliveryUrlAnalyze
\* the handler clearing the published analysis when the URL is rejected
handleDeliveryUrlAnalyzeClearing ==
  /\ pc = "idle"
  /\ ~isBusy
  /\ LET r == analyzeFromUrl(deliveryUrl)
     IN IF deliveryUrl # EmptyUrl /\ r.ok
        THEN /\ analysis' = r.result
             /\ error' = <<>>
             /\ status' = "Delivery URL analyzed."
        ELSE /\ error' = <<"Failed to analyze the delivery URL. Please check that it's a valid Cloudinary URL.">>
             /\ status' = ""
             /\ analysis' = Null
  /\ UNCHANGED <<crawlVars, userInputs, relay, pc, isBusy>>

\* lines 995-1019
handleDeliveryUrlAnalyze ==
  /\ pc = "idle"
  /\ ~isBusy
  /\ IF deliveryUrl = EmptyUrl
     THEN /\ error' = <<"Enter a Cloudinary delivery URL first.">>
          /\ UNCHANGED <<status, analysis>>
     ELSE LET r == analyzeFromUrl(deliveryUrl)
          IN IF r.ok
             THEN /\ analysis' = r.result
                  /\ error' = <<>>
                  /\ status' = "Delivery URL analyzed."
             ELSE /\ error' = <<"Failed to analyze the delivery URL. Please check that it's a valid Cloudinary URL.">>
                  /\ status' = ""
                  /\ UNCHANGED analysis
  /\ UNCHANGED <<crawlVars, userInputs, relay, pc, isBusy>>

\* SpecSingle follows the application on its capture, markup and delivery-URL
\* tabs: the inputs are supplied, and an Analyze button is clicked while it is
\* enabled (its input not empty, nothing running). The user supplies a capture
\* file, or a delivery URL, or markup with one media element and possibly a
\* delivery URL
InitSingle ==
  /\ workerConfigured = TRUE
  /\ siteUrl = "empty"
  /\ pc = "idle"
  /\ loc = IdleLoc
  /\ run = 0
  /\ tokens = <<>>
  /\ sitemapCancelToken = 0
  /\ isBusy = FALSE
  /\ error = <<>>
  /\ status = ""
  /\ analysis = Null
  /\ sitemapProgress = ZeroProgress
  /\ inflight = {}
  /\ timers = 0
  /\ fetches = <<>>
  /\ pageLog = <<>>
  /\ outcome = "none"
  /\ \/ /\ htmlInput = EmptyBody
        /\ deliveryUrl = EmptyUrl
        /\ harJson \in ScoreHars \cup ModeHars \cup {ScenarioHar, NotJson}
     \/ /\ htmlInput = EmptyBody
        /\ deliveryUrl \in DeliveryUrls
        /\ harJson = NoFile
     \/ /\ htmlInput \in {HtmlBody(<<Img(u)>>) : u \in ModeUrls}
        /\ deliveryUrl \in {EmptyUrl, UrlPlainImage, UrlOptimized}
        /\ harJson = NoFile
  /\ relay = RelayIdle

NextSingle ==
  \/ harJson # NoFile /\ handleHarUpload
  \/ FileRead
  \/ htmlInput # EmptyBody /\ handleHtmlAnalyze
  \/ deliveryUrl # EmptyUrl /\ handleDeliveryUrlAnalyze

SpecSingle == InitSingle /\ [][NextSingle]_vars

\* SpecModes follows the application in all four modes: the user works on the
\* capture, markup and delivery-URL tabs as in SpecSingle or, with those tabs
\* left empty, has a website analysed as in Spec
InitModes == Init \/ InitSingle

NextModes ==
  \/ harJson # NoFile /\ handleHarUpload
  \/ FileRead
  \/ htmlInput # EmptyBody /\ handleHtmlAnalyze
  \/ deliveryUrl # EmptyUrl /\ handleDeliveryUrlAnalyze
  \/ \E input \in SiteInputs, useSitemap \in BOOLEAN :
       /\ run = 0
       /\ harJson = NoFile /\ htmlInput = EmptyBody /\ deliveryUrl = EmptyUrl
       /\ Start(input, useSitemap)
  \/ \E resp \in RobotsResponses : RobotsReturns(resp)
  \/ \E resp \in SitemapResponses : DefaultReturns(resp)
  \/ \E resp \in SitemapResponses : SitemapReturns(resp)
  \/ \E resp \in SitemapResponses : ChildReturns(resp)
  \/ Sampling
  \/ LoopTop
  \/ \E resp \in PageResponses : PageReturns(resp)
  \/ DelayElapses
  \/ Compile
  \/ \E resp \in SingleResponses : SingleReturns(resp)
  \/ Cancel

SpecModes == InitModes /\ [][NextModes]_vars

\* ------------------------------------------------- worker/index.js: fetch
\* url.searchParams.get('url'): null when the parameter is absent
NoParam == [given |-> FALSE, text |-> ""]
Param(text) == [given |-> TRUE, text |-> text]
\* !targetUrl: null and the empty string
Falsy(targetUrl) == ~targetUrl.given \/ targetUrl.text = ""

\* new URL(targetUrl).protocol of the strings that parse; "" where new URL throws
ProtocolOf(text) ==
  CASE text = "https://example.com/" -> "https:"
    [] text = "http://example.com/page" -> "http:"
    [] text = "https://shop.example/sitemap.xml" -> "https:"
    [] text = "ftp://example.com/file" -> "ftp:"
    [] text = "javascript:alert(1)" -> "javascript:"
    [] OTHER -> ""

\* the validation accepting every target that parses
TargetAcceptedAnyScheme(targetUrl) == ProtocolOf(targetUrl.text) # ""

\* lines 84-90: the target parses and its protocol is http: or https:
TargetAccepted(targetUrl) == ProtocolOf(targetUrl.text) \in {"http:", "https:"}

Request(method, pathname, targetUrl) ==
  [method |-> method, pathname |-> pathname, targetUrl |-> targetUrl]

\* new Response(body, {status}): error is <<>> when the body has no error member
Answer(code, json, errorMember, body) ==
  [status |-> code, json |-> json, error |-> errorMember, body |-> body]

\* what the fetch of line 121 gives: a response (the upstream's status; whether
\* reading its body throws), or an exception
UpstreamResponse(code, statusText, textThrows) ==
  [kind |-> "response", status |-> code, statusText |-> statusText,
   textThrows |-> textThrows]
UpstreamThrows(message) == [kind |-> "throws", message |-> message]

\* response.ok
IsOk(code) == code \in 200..299
\* the statuses for which new Response(body, {status}) with a body throws
NullBodyStatuses == {101, 204, 205, 304}

\* lines 213-245: the catch of the upstream fetch
CaughtAnswer(message) ==
  Answer(500, TRUE, <<IF message # "" THEN message ELSE "Failed to fetch URL">>, <<>>)

\* lines 140-212, inside the try of line 115
AnswerTo(upstream) ==
  IF upstream.kind = "throws" THEN CaughtAnswer(upstream.message)
  ELSE IF ~IsOk(upstream.status)
  THEN \* the body is read inside a try of its own (lines 150-169)
       IF upstream.status \in NullBodyStatuses
       THEN CaughtAnswer("Response with null body status cannot have body")
       ELSE Answer(upstream.status, TRUE,
                   <<"Failed to fetch URL:", ToString(upstream.status), upstream.statusText>>,
                   <<>>)
  ELSE IF upstream.textThrows THEN CaughtAnswer("Network connection lost.")
  ELSE IF upstream.status \in NullBodyStatuses
  THEN CaughtAnswer("Response with null body status cannot have body")
  ELSE Answer(upstream.status, FALSE, <<>>, <<"html">>)

\* lines 7-121: a request reaches the relay; the handler answers it, or
\* fetches the target and waits
RelayFetch(request) ==
  /\ relay.pc \in {"idle", "answered"}
  /\ LET answered(a) ==
           relay' = [pc |-> "answered", request |-> request, upstream |-> <<>>,
                     settled |-> NoUpstream, answer |-> a]
     IN IF request.method = "OPTIONS"
        THEN answered(Answer(200, FALSE, <<>>, <<>>))
        ELSE IF request.method # "GET"
        THEN answered(Answer(405, FALSE, <<>>, <<"Method not allowed">>))
        ELSE IF request.pathname = "/" /\ Falsy(request.targetUrl)
        THEN answered(Answer(200, TRUE, <<>>, <<"usage">>))
        ELSE IF Falsy(request.targetUrl)
        THEN answered(Answer(400, TRUE, <<"Missing url parameter. Add ?url=<target-url> to proxy a website request.">>, <<>>))
        ELSE IF ~TargetAccepted(request.targetUrl)
        THEN answered(Answer(400, TRUE, <<"Invalid URL">>, <<>>))
        ELSE relay' = [pc |-> "awaitUpstream", request |-> request,
                       upstream |-> <<request.targetUrl.text>>, settled |-> NoUpstream,
                       answer |-> NoAnswer]
  /\ UNCHANGED <<crawlVars, userInputs, pc, isBusy, error, status, analysis>>

\* lines 121-245: the upstream fetch settles
UpstreamReturns(upstream) ==
  /\ relay.pc = "awaitUpstream"
  /\ relay' = [relay EXCEPT !.pc = "answered", !.settled = upstream,
                            !.answer = AnswerTo(upstream)]
  /\ UNCHANGED <<crawlVars, userInputs, pc, isBusy, error, status, analysis>>

\* the requests and the upstream results of SpecRelay
TargetUrls ==
  {NoParam, Param(""), Param("not a url"), Param("ftp://example.com/file"),
   Param("javascript:alert(1)"), Param("https://example.com/"),
   Param("http://example.com/page"), Param("https://shop.example/sitemap.xml")}
Requests ==
  {Request(method, pathname, targetUrl) :
     method \in {"GET", "POST", "OPTIONS"}, pathname \in {"/", "/proxy"},
     targetUrl \in TargetUrls}
\* 300: a redirection the fetch does not follow (no Location header)
UpstreamOutcomes ==
  {UpstreamResponse(200, "OK", FALSE), UpstreamResponse(200, "OK", TRUE),
   UpstreamResponse(204, "No Content", FALSE), UpstreamResponse(300, "Multiple Choices", FALSE),
   UpstreamResponse(304, "Not Modified", FALSE), UpstreamResponse(403, "Forbidden", FALSE),
   UpstreamResponse(404, "", FALSE), UpstreamResponse(429, "Too Many Requests", FALSE),
   UpstreamResponse(500, "Internal Server Error", TRUE), UpstreamResponse(503, "", FALSE),
   UpstreamThrows("internal error"), UpstreamThrows("")}

\* SpecRelay follows the relay alone: requests reach it one after the other
NextRelay ==
  \/ \E request \in Requests : RelayFetch(request)
  \/ \E upstream \in UpstreamOutcomes : UpstreamReturns(upstream)

InitRelay == Init /\ workerConfigured = TRUE

SpecRelay == InitRelay /\ [][NextRelay]_vars

\* ============================================================ properties
\* the page requests issued so far
PageFetches == SelectSeq(fetches, LAMBDA r : r.purpose = "page")
\* the settled page fetches the relay answered with a page
OkLog == SelectSeq(pageLog, LAMBDA e : e.resp.kind = "ok")
FailLog == SelectSeq(pageLog, LAMBDA e : e.resp.kind # "ok")
UrlsOf(entries) == [k \in 1..Len(entries) |-> entries[k].url]
\* the published result is the aggregate of a crawl
CrawlPublished == outcome = "Done" /\ "sitemapStats" \in DOMAIN analysis

\* ------------------------------------------------------------------- C1
\* C1: page fetches are strictly serialized.  At most one relay request is in
\* flight at any time, a page request in flight is the one the handler is
\* suspended on (the request for page i), and the request for the next page
\* has not been issued while an earlier one is unsettled: the page requests
\* issued exceed the page requests settled by at most one.
C1_PageFetchesSerialized ==
  /\ Cardinality(inflight) <= 1
  /\ Len(PageFetches) <= Len(pageLog) + 1
  /\ \A r \in inflight :
       r.purpose = "page" =>
         /\ pc = "awaitPage"
         /\ r = loc.awaiting
         /\ r.url = loc.pagesToAnalyze[loc.i + 1]
         /\ Len(pageLog) = loc.i

\* the request for the second or a later page is in flight, alone
C1_Witness ==
  /\ pc = "awaitPage"
  /\ loc.i >= 1
  /\ Cardinality(inflight) = 1
  /\ Len(PageFetches) = loc.i + 1

\* the running invocation has been cancelled
CancelledRunning == pc # "idle" /\ run > 0 /\ tokens[run]

\* ------------------------------------------------------------------- C2
\* C2: cancellation stops the crawl.  From the moment the cancel flag of the
\* running invocation is set, no step issues a relay request, no step
\* compiles or publishes a result, the handler can only end as Cancelled,
\* and it does end as Cancelled.
C2_CancelStopsTheCrawl ==
  /\ [][CancelledRunning =>
          /\ fetches' = fetches
          /\ analysis' = analysis
          /\ pc' \notin {"awaitPage", "compiling"}
          /\ (pc' = "idle" => outcome' = "Cancelled")]_vars
  /\ (CancelledRunning ~> (pc = "idle" /\ outcome = "Cancelled"))

\* a crawl cancelled after its first page request, with pages left unfetched
C2_Witness ==
  /\ outcome = "Cancelled"
  /\ Len(PageFetches) >= 1
  /\ Len(PageFetches) < Len(loc.pagesToAnalyze)
  /\ analysis = Null

\* ------------------------------------------------------------------- C3
\* C3: the failure of a page never aborts the crawl.  No invocation that has
\* requested a page ends as Failed; and when an uncancelled crawl is Done,
\* every sampled page has been tried, the pages the relay answered are the
\* completed list, the pages whose fetch failed are the failed list (one entry
\* each, in order), every sampled page is in exactly one of the two lists,
\* and every failed entry carries a non-empty message.
C3_PageFailureIsolated ==
  /\ (outcome = "Failed" => PageFetches = <<>>)
  /\ (CrawlPublished /\ sitemapProgress.total > 0) =>
       /\ Len(pageLog) = Len(loc.pagesToAnalyze)
       /\ sitemapProgress.completed = UrlsOf(OkLog)
       /\ UrlsOf(sitemapProgress.failed) = UrlsOf(FailLog)
       /\ \A u \in Range(loc.pagesToAnalyze) :
            CountIn(sitemapProgress.completed, u) + CountIn(UrlsOf(sitemapProgress.failed), u)
              = CountIn(loc.pagesToAnalyze, u)
       /\ \A k \in 1..Len(sitemapProgress.failed) : sitemapProgress.failed[k].error # <<>>

\* a finished crawl with a page that failed before a page that succeeded
C3_Witness ==
  /\ CrawlPublished
  /\ Len(sitemapProgress.failed) >= 1
  /\ Len(sitemapProgress.completed) >= 1
  /\ pageLog[1].resp.kind # "ok"

\* what was extracted from the pages the relay answered, each entry with its page
ExtractedFrom(field) ==
  Flatten([k \in 1..Len(OkLog) |->
             LET found == analyzeBody(OkLog[k].resp.body)[field]
             IN [j \in 1..Len(found) |-> [found[j] EXCEPT !.pageUrl = OkLog[k].url]]])
ExtractedUnion ==
  [totalRequests |-> SumSeq([k \in 1..Len(OkLog) |-> analyzeBody(OkLog[k].resp.body).totalRequests]),
   cloudinaryRequests |-> ExtractedFrom("cloudinaryRequests"),
   nonCloudinaryImages |-> ExtractedFrom("nonCloudinaryImages")]

\* ------------------------------------------------------------------- C4
\* C4: the aggregate of a finished crawl is the analysis of exactly the union
\* of what was extracted from the successfully fetched pages.  Its media with
\* media-CDN URLs and its other images are those of the successful pages,
\* each tagged with the page it came from, its request total is the sum of
\* the pages' totals, and its per-asset list, score, suggestions and coverage
\* are those finalizeAnalysis gives for that union.
C4_AggregateOverSuccessfulPages ==
  CrawlPublished =>
    /\ analysis.cloudinaryRequests = ExtractedUnion.cloudinaryRequests
    /\ analysis.nonCloudinaryImages = ExtractedUnion.nonCloudinaryImages
    /\ analysis.totalRequests = ExtractedUnion.totalRequests
    /\ \A k \in 1..Len(analysis.perAsset) :
         /\ analysis.perAsset[k].url = ExtractedUnion.cloudinaryRequests[k].url
         /\ analysis.perAsset[k].pageUrl = ExtractedUnion.cloudinaryRequests[k].pageUrl
         /\ analysis.perAsset[k].pageUrl \in Range(UrlsOf(OkLog))
    /\ Len(analysis.perAsset) = Len(ExtractedUnion.cloudinaryRequests)
    /\ analysis.score = finalizeAnalysis(ExtractedUnion).score
    /\ analysis.suggestions = finalizeAnalysis(ExtractedUnion).suggestions
    /\ analysis.coverage = finalizeAnalysis(ExtractedUnion).coverage

\* a finished crawl of three pages: one failed, two gave media from different pages
C4_Witness ==
  /\ CrawlPublished
  /\ Len(OkLog) = 2
  /\ Len(FailLog) = 1
  /\ Len(analysis.perAsset) >= 2
  /\ analysis.perAsset[1].pageUrl # analysis.perAsset[Len(analysis.perAsset)].pageUrl

\* every sampled page has been tried and none was fetched
AllPagesFailed ==
  /\ Len(loc.pagesToAnalyze) > 0
  /\ Len(pageLog) = Len(loc.pagesToAnalyze)
  /\ OkLog = <<>>

\* ------------------------------------------------------------------- C5
\* C5: a crawl whose pages all fail, and that is not cancelled, still
\* compiles: after the last failure the handler is at the end of the loop or
\* compiling, and it ends Done with an aggregate over no assets, whose score
\* is 0.
C5_AllPagesFail ==
  (run > 0 /\ ~tokens[run] /\ AllPagesFailed) =>
    /\ pc \in {"loopTop", "compiling", "idle"}
    /\ pc = "idle" =>
         /\ CrawlPublished
         /\ analysis.perAsset = <<>>
         /\ analysis.nonCloudinaryImages = <<>>
         /\ analysis.totalRequests = 0
         /\ analysis.score = 0
         /\ error = <<>>

\* a finished crawl of several pages, all of which failed
C5_Witness ==
  /\ pc = "idle"
  /\ run > 0 /\ ~tokens[run]
  /\ AllPagesFailed
  /\ Len(loc.pagesToAnalyze) >= 2
  /\ outcome = "Done"

\* ------------------------------------------------------------------- C6
\* the pages have been sampled
Sampled == pc # "sampling" /\ loc.urlsToAnalyze # <<>>

\* C6: once the pages are sampled, the sample holds min(10, n) entries of the
\* n-entry url-set, no entry of the url-set is taken more often than the
\* url-set lists it (the sample is drawn without replacement), and the
\* total recorded for the crawl - by the handler, in the progress panel and
\* in the statistics of the compiled result - is n.
C6_SampleOfAtMostTen ==
  Sampled =>
    LET n == Len(loc.urlsToAnalyze)
    IN /\ Len(loc.pagesToAnalyze) = (IF n < 10 THEN n ELSE 10)
       /\ \A u \in Range(loc.pagesToAnalyze) :
            CountIn(loc.pagesToAnalyze, u) <= CountIn(loc.urlsToAnalyze, u)
       /\ loc.totalPages = n
       /\ sitemapProgress.total > 0 =>
            /\ sitemapProgress.total = Len(loc.pagesToAnalyze)
            /\ sitemapProgress.totalPages = n
       /\ CrawlPublished => analysis.sitemapStats.totalPagesInSitemap = n

\* a finished crawl of a sitemap of more than ten pages, the sample holding
\* both addresses
C6_Witness ==
  /\ CrawlPublished
  /\ Len(loc.urlsToAnalyze) > 10
  /\ Len(loc.pagesToAnalyze) = 10
  /\ Cardinality(Range(loc.pagesToAnalyze)) = 2
  /\ analysis.sitemapStats.totalPagesInSitemap = Len(loc.urlsToAnalyze)

\* ------------------------------------------------------------------- C7
\* C7: the statistics of a compiled crawl give the number of pages sampled,
\* the number of pages discovered and the share sampled / discovered x 100
\* to one decimal, whatever became of the fetches of the sampled pages.
C7_StatsCountTheSample ==
  CrawlPublished =>
    /\ analysis.sitemapStats.pagesAnalyzed = Len(loc.pagesToAnalyze)
    /\ analysis.sitemapStats.totalPagesInSitemap = Len(loc.urlsToAnalyze)
    /\ analysis.sitemapStats.percentage = ToFixed1(Len(loc.pagesToAnalyze), Len(loc.urlsToAnalyze))

\* ------------------------------------------------------------------- C8
\* the request the invocation issued last
LastFetch == fetches[Len(fetches)]

\* C8: no failure while the sitemap is resolved ends the run with an error:
\* an invocation that has issued relay requests and ends as Failed has failed
\* on the fetch of the single page, never on robots.txt, a declared sitemap,
\* /sitemap.xml or the first child of an index.
C8_SitemapFailuresSwallowed ==
  (outcome = "Failed" /\ fetches # <<>>) => LastFetch.purpose = "single"

\* ------------------------------------------------------------------- C9
\* the phase the handler is in, and the place of the phase in the order
Phase ==
  CASE pc = "idle" /\ outcome = "none" -> "Idle"
    [] pc = "idle" -> outcome
    [] pc \in {"awaitRobots", "awaitDefault", "awaitSitemap", "awaitChild"} -> "DiscoveringSitemap"
    [] pc = "sampling" -> "SamplingPages"
    [] pc \in {"loopTop", "awaitPage", "awaitDelay"} -> "FetchingPage"
    [] pc = "awaitSingle" -> "SinglePage"
    [] pc = "compiling" -> "Compiling"

PhaseRank ==
  CASE Phase = "Idle" -> 0
    [] Phase = "DiscoveringSitemap" -> 1
    [] Phase = "SamplingPages" -> 2
    [] Phase = "SinglePage" -> 3
    [] Phase = "FetchingPage" -> 3 + loc.i
    [] Phase = "Compiling" -> 4 + SampleCap
    [] OTHER -> 5 + SampleCap

Terminal == Phase \in {"Done", "Cancelled", "Failed"}

\* C9: an invocation moves through the phases in the order Idle,
\* DiscoveringSitemap, SamplingPages, FetchingPage(i) for increasing i (or
\* the fetch of the single page), Compiling, terminal: no step other than
\* the start of an invocation goes back in that order, and none leaves a
\* terminal phase.  It ends in exactly one terminal phase - Done with a
\* result published, Failed with an error shown, Cancelled with its cancel
\* flag set, and never two of these - and every running invocation reaches
\* one.
C9_PhaseOrder ==
  /\ [][\/ \E input \in SiteInputs, useSitemap \in BOOLEAN : Start(input, useSitemap)
        \/ /\ PhaseRank' >= PhaseRank
           /\ Terminal => (Terminal' /\ Phase' = Phase)
           /\ (Phase = "Compiling" /\ Phase' # Phase) => Phase' = "Done"]_vars
  /\ [](Terminal =>
          /\ (outcome = "Done") <=> (analysis # Null)
          /\ (outcome = "Failed") <=> (error # <<>>)
          /\ (outcome = "Cancelled") <=> (run > 0 /\ tokens[run]))
  /\ ((pc # "idle") ~> (pc = "idle" /\ Terminal))

\* a crawl that went through every phase: three pages fetched in turn, compiled, Done
C9_Witness ==
  /\ Phase = "Done"
  /\ Len(pageLog) = 3
  /\ loc.i = 3
  /\ "sitemapStats" \in DOMAIN analysis

\* ------------------------------------------------------------------ C10
\* the address typed is rejected before any fetch
InvalidInput == siteUrl \in {"empty", "unparsable"} \/ ~workerConfigured

\* C10: an invocation with an empty address, an address new URL() rejects,
\* or no relay configured issues no relay request at all: nothing has been
\* sent, nothing is in flight, no timer is armed, and the handler is not
\* left waiting.
C10_NoFetchOnInvalidInput ==
  InvalidInput =>
    /\ fetches = <<>>
    /\ inflight = {}
    /\ timers = 0
    /\ pc = "idle"
    /\ ~isBusy

\* an address that does not parse, rejected with the relay configured
C10_Witness ==
  /\ siteUrl = "unparsable"
  /\ workerConfigured
  /\ outcome = "Failed"
  /\ error # <<>>
  /\ fetches = <<>>

\* ------------------------------------------------------------------ C11
\* the counts the score is computed from, read off the published analysis
CdnAssetCount == Len(analysis.perAsset)
TotalAssetCount == analysis.totalRequests
FullyOptimized(a) ==
  \/ a.cld.resourceType = "raw"
  \/ isSvgFile(a.cld.publicId, a.url)
  \/ /\ "f_auto" \in a.cld.txSet
     /\ \E t \in a.cld.txSet : t = "q_auto" \/ StartsWithQAutoColon(t)
FullyOptimizedCount ==
  Cardinality({k \in 1..Len(analysis.perAsset) : FullyOptimized(analysis.perAsset[k])})

C12_ScoreRange ==
  analysis # Null =>
    /\ analysis.score \in 0..100
    /\ (CdnAssetCount = 0 \/ TotalAssetCount = 0) => analysis.score = 0

\* a capture with requests and media, none of it served by the CDN, scores 0
C12_Witness ==
  /\ status = "Analyzed file"
  /\ TotalAssetCount > 1
  /\ Len(analysis.nonCloudinaryImages) > 0
  /\ CdnAssetCount = 0
  /\ analysis.score = 0

\* ------------------------------------------------------------------ C13
\* the collection finalizeAnalysis was given, as its result carries it
FinalizeInput ==
  [totalRequests |-> analysis.totalRequests,
   cloudinaryRequests |-> analysis.cloudinaryRequests,
   nonCloudinaryImages |-> analysis.nonCloudinaryImages]
\* the entries k and k + 1 of a list exchanged
Exchanged(seq, k) ==
  [i \in 1..Len(seq) |-> IF i = k THEN seq[k + 1] ELSE IF i = k + 1 THEN seq[k] ELSE seq[i]]
IssueSets(perAsset) ==
  {<<perAsset[k].url, perAsset[k].cld, Range(perAsset[k].issues)>> : k \in 1..Len(perAsset)}
SameVerdict(a, b) ==
  /\ a.score = b.score
  /\ Range(a.suggestions) = Range(b.suggestions)
  /\ IssueSets(a.perAsset) = IssueSets(b.perAsset)

\* C13: finalizeAnalysis is a function of the collection it is given.  Its
\* result carries the collection unmodified (for a capture: the lists as
\* they were scanned); applied again to the same collection it returns the
\* published analysis; and with two neighbouring entries of either list
\* exchanged it returns the same score, the same set of suggestions and the
\* same issues for each asset.  Every capture of the model is analysed, so
\* this holds along every chain of exchanges, that is for every permutation.
C13_FinalizeIsPure ==
  (analysis # Null /\ "sitemapStats" \notin DOMAIN analysis) =>
    /\ finalizeAnalysis(FinalizeInput) = analysis
    /\ status = "Analyzed file" =>
         FinalizeInput = ScanEntries(harJson.entries,
           [totalRequests |-> Len(harJson.entries), cloudinaryRequests |-> <<>>,
            nonCloudinaryImages |-> <<>>])
    /\ \A k \in 1..(Len(analysis.cloudinaryRequests) - 1) :
         SameVerdict(
           finalizeAnalysis([FinalizeInput EXCEPT !.cloudinaryRequests = Exchanged(@, k)]),
           analysis)
    /\ \A k \in 1..(Len(analysis.nonCloudinaryImages) - 1) :
         SameVerdict(
           finalizeAnalysis([FinalizeInput EXCEPT !.nonCloudinaryImages = Exchanged(@, k)]),
           analysis)

\* an analysis of a capture with an SVG after an asset with issues, and other media
C13_Witness ==
  /\ status = "Analyzed file"
  /\ Len(analysis.perAsset) >= 3
  /\ analysis.perAsset[1].issues # <<>>
  /\ analysis.perAsset[2].issues = <<>>
  /\ analysis.perAsset[3].issues # analysis.perAsset[1].issues
  /\ Len(analysis.nonCloudinaryImages) >= 1

\* ------------------------------------------------------------------ C14
\* an asset the advice does not apply to
RawOrSvg(a) == a.cld.resourceType = "raw" \/ isSvgFile(a.cld.publicId, a.url)
HasQualityAuto(tx) == \E t \in tx : t = "q_auto" \/ StartsWithQAutoColon(t)
HasSizing(tx) == \E t \in tx : StartsWithW(t) \/ StartsWithH(t)

\* C14: in every published analysis, the issue list of a CDN asset that is
\* neither raw nor SVG holds, in this order, the auto-format issue iff its
\* tokens lack f_auto, the auto-quality issue iff they hold neither q_auto
\* nor a q_auto:* token, and the sizing issue iff they hold neither a w_*
\* nor an h_* token; the issue list of a raw or SVG asset is empty.
C14_IssuesPerAsset ==
  analysis # Null =>
    \A k \in 1..Len(analysis.perAsset) :
      LET a == analysis.perAsset[k]
          tx == a.cld.txSet
      IN IF RawOrSvg(a) THEN a.issues = <<>>
         ELSE a.issues =
                (IF "f_auto" \notin tx THEN <<IssueFAuto>> ELSE <<>>)
                \o (IF ~HasQualityAuto(tx) THEN <<IssueQAuto>> ELSE <<>>)
                \o (IF ~HasSizing(tx) THEN <<IssueSizing>> ELSE <<>>)

\* a capture whose assets show two issues, one issue, and none for an SVG
\* that carries neither f_auto nor q_auto
C14_Witness ==
  /\ status = "Analyzed file"
  /\ Len(analysis.perAsset) = 3
  /\ analysis.perAsset[1].issues = <<IssueFAuto, IssueQAuto>>
  /\ analysis.perAsset[2].issues = <<IssueSizing>>
  /\ analysis.perAsset[3].url = UrlSvg
  /\ analysis.perAsset[3].issues = <<>>

\* ------------------------------------------------------------------ C15
NonExemptAssets == SelectSeq(analysis.perAsset, LAMBDA a : ~RawOrSvg(a))
CountOf(assets, Test(_)) == Cardinality({k \in 1..Len(assets) : Test(assets[k])})
MissingSizing == CountOf(NonExemptAssets, LAMBDA a : ~HasSizing(a.cld.txSet))

\* C15: the suggestions of every published analysis are without duplicates
\* and hold: adopt-auto-format iff there are non-exempt CDN assets and fewer
\* than 0.8 of them carry f_auto; adopt-auto-quality iff fewer than 0.8 of
\* them carry a quality-auto token; migrate iff there is media not served by
\* the CDN; and the resize suggestion for n assets iff n is the number of
\* non-exempt assets without a w_* or h_* token and n is positive.
C15_Suggestions ==
  analysis # Null =>
    LET given == Range(analysis.suggestions)
        n == Len(NonExemptAssets)
        withFormat == CountOf(NonExemptAssets, LAMBDA a : "f_auto" \in a.cld.txSet)
        withQuality == CountOf(NonExemptAssets, LAMBDA a : HasQualityAuto(a.cld.txSet))
    IN /\ Cardinality(given) = Len(analysis.suggestions)
       /\ SuggestFAuto \in given <=> (n > 0 /\ 10 * withFormat < 8 * n)
       /\ SuggestQAuto \in given <=> (n > 0 /\ 10 * withQuality < 8 * n)
       /\ SuggestMigrate \in given <=> Len(analysis.nonCloudinaryImages) > 0
       /\ \A m \in 0..(Len(analysis.perAsset) + 1) :
            SuggestResize(m) \in given <=> (m = MissingSizing /\ m > 0)

\* a capture of five images on the CDN, four of them with f_auto and none
\* with a quality token: no advice on the format, advice on the quality
C15_Witness ==
  /\ status = "Analyzed file"
  /\ Len(NonExemptAssets) = 5
  /\ CountOf(NonExemptAssets, LAMBDA a : "f_auto" \in a.cld.txSet) = 4
  /\ SuggestFAuto \notin Range(analysis.suggestions)
  /\ SuggestQAuto \in Range(analysis.suggestions)

\* ------------------------------------------------------------------ C16
\* the extensions of image and video files
ImageVideoExts ==
  {"png", "jpg", "jpeg", "gif", "webp", "avif", "svg", "ico", "bmp", "tif", "tiff", "heic",
   "heif", "mp4", "webm", "mov", "avi", "wmv", "flv", "mkv"}
IndicatesImageOrVideo(url, mimeType) ==
  LastExt(url.path) \in ImageVideoExts \/ IsImageOrVideoMime(mimeType)
\* the URLs on the two lists of the published analysis
CdnServed == {r.url : r \in Range(analysis.cloudinaryRequests)}
NonCdnMedia == {r.url : r \in Range(analysis.nonCloudinaryImages)}
\* the category capture mode is to give an entry
CaptureCategory(url, response) ==
  LET cld == parseCloudinaryUrl(url)
  IN IF cld # Null /\ (hasCloudinaryResponseHeaders(response) \/ cld.txSet # {})
     THEN "cdn"
     ELSE IF IndicatesImageOrVideo(url, response.mimeType) /\ ~MatchesNonMedia(url)
     THEN "media"
     ELSE "excluded"

\* C16: when a capture has been analysed, no entry is on both lists and the
\* lists together are no longer than the capture; an entry with a URL is on the CDN
\* list iff its URL classifies to a descriptor and its response carries a
\* CDN signature or the descriptor has transformations; otherwise it is on
\* the list of other media iff its URL or MIME type indicates an image or a
\* video and its URL matches no exclusion pattern; otherwise it is on neither.
C16_CaptureCategories ==
  status = "Analyzed file" =>
    /\ CdnServed \cap NonCdnMedia = {}
    /\ Len(analysis.cloudinaryRequests) + Len(analysis.nonCloudinaryImages)
         <= Len(harJson.entries)
    /\ \A k \in 1..Len(harJson.entries) :
         LET e == harJson.entries[k]
             category == CaptureCategory(e.url, e.response)
         IN e.url # EmptyUrl =>
              /\ e.url \in CdnServed <=> category = "cdn"
              /\ e.url \in NonCdnMedia <=> category = "media"

\* ------------------------------------------------------------------ C17
\* the category the published analysis gives a URL
PublishedCategory(url) ==
  IF url \in CdnServed THEN "cdn" ELSE IF url \in NonCdnMedia THEN "media" ELSE "excluded"
\* the category capture mode gives an entry with this URL and no response metadata
CaptureAssigns(url) ==
  LET alone == analyzeFromHar(<<Entry(url, NoResponse)>>)
  IN IF alone.cloudinaryRequests # <<>> THEN "cdn"
     ELSE IF alone.nonCloudinaryImages # <<>> THEN "media"
     ELSE "excluded"

\* C17: when markup has been analysed, every element with a source URL has
\* the category capture mode gives an entry with that URL, no CDN-signature
\* header and no MIME type; so a URL that classifies to a descriptor without
\* transformations is not on the CDN list.
C17_MarkupAsCapture ==
  status = "HTML scan complete." =>
    \A k \in 1..Len(htmlInput.els) :
      LET raw == RawAttr(htmlInput.els[k])
          cld == parseCloudinaryUrl(raw[1])
      IN raw # <<>> =>
           /\ PublishedCategory(raw[1]) = CaptureAssigns(raw[1])
           /\ (cld # Null /\ cld.txSet = {}) => raw[1] \notin CdnServed

\* ------------------------------------------------------------------ C18
\* C18: a click on Analyze with a delivery URL that does not classify shows
\* an error, publishes nothing and leaves the published analysis, if any, as
\* it was, and the application is ready for the next operation; with a URL
\* that classifies it publishes an analysis of one request with exactly one
\* analysed asset, the URL typed.
C18_LiteralUrl ==
  [][handleDeliveryUrlAnalyze =>
       /\ pc' = "idle" /\ ~isBusy'
       /\ IF parseCloudinaryUrl(deliveryUrl) = Null
          THEN /\ error' # <<>>
               /\ analysis' = analysis
          ELSE /\ error' = <<>>
               /\ analysis'.totalRequests = 1
               /\ Len(analysis'.perAsset) = 1
               /\ analysis'.perAsset[1].url = deliveryUrl
               /\ analysis'.cloudinaryRequests = <<[url |-> deliveryUrl,
                                                    cld |-> parseCloudinaryUrl(deliveryUrl),
                                                    pageUrl |-> Undefined, cc |-> ""]>>]_vars

\* markup was analysed, then a delivery URL was rejected: the analysis of the
\* markup is still the published one
C18_Witness ==
  /\ htmlInput # EmptyBody
  /\ deliveryUrl = UrlPlainImage
  /\ error = <<"Failed to analyze the delivery URL. Please check that it's a valid Cloudinary URL.">>
  /\ analysis # Null
  /\ analysis = analyzeFromHtml(htmlInput.els)

\* ------------------------------------------------------------------ C19
DescriptorFields ==
  {"cloudName", "resourceType", "deliveryType", "publicId", "transformations", "txSet"}
\* a resource type followed by a delivery type somewhere in the path
HasTypePair(url) ==
  \E k \in 1..(Len(url.path) - 1) :
    /\ url.path[k] \in {<<"image">>, <<"images">>, <<"video">>, <<"raw">>}
    /\ url.path[k + 1] \in {<<"upload">>, <<"fetch">>, <<"private">>, <<"authenticated">>}
\* a segment that matches the transformation grammar
HasGrammarSegment(url) ==
  \E k \in 1..Len(url.path) : hasCloudinaryTransformations(url.path[k])

\* C19: for every string typed as the delivery URL the classifier returns a
\* descriptor or null - also for a string new URL() rejects - and it returns
\* null whenever the path has neither a resource type followed by a delivery
\* type nor a segment matching the transformation grammar; the handler
\* reports exactly the URLs it returns null for.
C19_ClassifierTotal ==
  LET cld == parseCloudinaryUrl(deliveryUrl)
  IN /\ cld = Null \/ DOMAIN cld = DescriptorFields
     /\ ~deliveryUrl.valid => cld = Null
     /\ (~HasTypePair(deliveryUrl) /\ ~HasGrammarSegment(deliveryUrl)) => cld = Null
     /\ status = "Delivery URL analyzed." => (cld # Null /\ analysis.perAsset[1].cld = cld)
     /\ (deliveryUrl # EmptyUrl /\ status = "" /\ error # <<>>) => cld = Null

\* a URL of three segments that ends in a file name, with no type pair and no
\* transformation, has been rejected
C19_Witness ==
  /\ Len(deliveryUrl.path) = 3
  /\ SegHasExt(deliveryUrl.path[3])
  /\ ~HasTypePair(deliveryUrl)
  /\ ~HasGrammarSegment(deliveryUrl)
  /\ error # <<>>
  /\ analysis = Null

\* ------------------------------------------------------------------ C20
\* C20: the descriptor of every delivery URL that was analysed has a
\* resource type among image, video and raw, a delivery type among upload,
\* fetch, private and authenticated, and a public id that is not empty.
C20_DescriptorWellFormed ==
  status = "Delivery URL analyzed." =>
    LET cld == analysis.perAsset[1].cld
    IN /\ cld.resourceType \in {"image", "video", "raw"}
       /\ cld.deliveryType \in {"upload", "fetch", "private", "authenticated"}
       /\ cld.publicId # <<>>

\* ------------------------------------------------------------------ C21
\* the relay has answered a GET
AnsweredGet == relay.pc = "answered" /\ relay.request.method = "GET"
\* a status from 400 to 599 and a JSON body with an error member
ErrorAnswer(a) == a.status \in 400..599 /\ a.json /\ a.error # <<>>
TargetScheme == ProtocolOf(relay.request.targetUrl.text)
UpstreamRefused == relay.settled.kind = "response" /\ relay.settled.status \notin 200..299

\* C21: the relay answers every GET whose target URL is missing, unparsable
\* or not http/https, and every GET whose upstream response is not 2xx, with a
\* 4xx/5xx status and a JSON body with an error member, and it fetches
\* upstream only a target that parsed with the scheme http or https.
C21_RelayErrorContract ==
  /\ AnsweredGet =>
       /\ Falsy(relay.request.targetUrl) => ErrorAnswer(relay.answer)
       /\ TargetScheme \notin {"http:", "https:"} => ErrorAnswer(relay.answer)
       /\ UpstreamRefused => ErrorAnswer(relay.answer)
  /\ relay.upstream # <<>> => TargetScheme \in {"http:", "https:"}

\* C21 as the relay has it: a GET without target is answered 400 with an error
\* member except on the path "/", where the answer is 200 with the usage
\* note; a target that does not parse or is not http/https is answered 400
\* with an error member; an upstream response that is not 2xx is answered
\* with a JSON body with an error member and a status that is not 2xx (the
\* upstream's, or 500); and only a GET target that parsed with the scheme
\* http or https is fetched upstream.
C21_RelayErrors ==
  /\ AnsweredGet =>
       /\ (Falsy(relay.request.targetUrl) /\ relay.request.pathname # "/") =>
            (ErrorAnswer(relay.answer) /\ relay.answer.status = 400)
       /\ (Falsy(relay.request.targetUrl) /\ relay.request.pathname = "/") =>
            (relay.answer.status = 200 /\ relay.answer.json /\ relay.answer.error = <<>>)
       /\ (~Falsy(relay.request.targetUrl) /\ TargetScheme \notin {"http:", "https:"}) =>
            (ErrorAnswer(relay.answer) /\ relay.answer.status = 400)
       /\ UpstreamRefused =>
            /\ relay.answer.json /\ relay.answer.error # <<>>
            /\ relay.answer.status \in {relay.settled.status, 500}
            /\ relay.answer.status \notin 200..299
  /\ relay.upstream # <<>> =>
       /\ relay.request.method = "GET"
       /\ ~Falsy(relay.request.targetUrl)
       /\ TargetScheme \in {"http:", "https:"}

\* the upstream refused with 403 and the relay passed the status on
C21_Witness ==
  /\ AnsweredGet
  /\ relay.settled.kind = "response"
  /\ relay.settled.status = 403
  /\ relay.answer.status = 403
  /\ relay.answer.error = <<"Failed to fetch URL:", "403", "Forbidden">>

\* ------------------------------------------------------------------ C22
\* pages of the sample are left after the one being fetched
PagesLeft == loc.i + 1 < Len(loc.pagesToAnalyze)

\* C22: every page fetch other than the last is followed by the inter-page
\* delay before the next page fetch is issued, whether it succeeded, failed
\* or timed out: when a page fetch settles and pages are left, the handler
\* does not go back to the head of the loop, where the next fetch is issued,
\* but waits for the delay (or ends, when cancelled).
C22_DelayAfterEveryPage ==
  [][(pc = "awaitPage" /\ PagesLeft) => pc' \in {"awaitPage", "awaitDelay", "idle"}]_vars

\* ------------------------------------------------------------------ C23
\* the fetches of sitemap documents, and those of children of an index
SitemapFetches == SelectSeq(fetches, LAMBDA r : r.purpose \in {"default", "sitemap", "child"})
ChildFetches == SelectSeq(fetches, LAMBDA r : r.purpose = "child")
\* the requests a step issues
NewFetches == SubSeq(fetches', Len(fetches) + 1, Len(fetches'))
NextId == Len(fetches) + 1
\* the values of the sitemap: lines of an answer to the robots.txt request
Declared(resp) ==
  IF resp.kind = "ok" /\ resp.body.kind = "robots"
  THEN LET given == SelectSeq(resp.body.lines, LAMBDA l : l.directive = "sitemap:" /\ l.value # 0)
       IN [k \in 1..Len(given) |-> given[k].value]
  ELSE <<>>
\* the children an answer lists, when it is a sitemap index
ListedChildren(resp) ==
  IF resp.kind = "ok" /\ resp.body.kind = "xml" /\ resp.body.root = "sitemapindex"
  THEN resp.body.sitemapLocs
  ELSE <<>>
\* the page locations of an answer that is a url-set
ListedPages(resp) ==
  IF resp.kind = "ok" /\ resp.body.kind = "xml" /\ resp.body.root = "urlset"
  THEN SelectSeq(resp.body.urlLocs, LAMBDA u : u # 0)
  ELSE <<>>

\* C23: the sitemap is the first sitemap: directive (with a value) of
\* robots.txt if there is one, otherwise /sitemap.xml, which is fetched and
\* taken only if it parses to at least one URL; of a sitemap index exactly
\* the first child listed is fetched, and after the child no further sitemap
\* document; a run fetches at most two sitemap documents and at most one child.
C23_SitemapResolution ==
  /\ [](Len(SitemapFetches) <= 2 /\ Len(ChildFetches) <= 1)
  /\ [][/\ \A resp \in RobotsResponses :
             (RobotsReturns(resp) /\ ~Cancelled) =>
               NewFetches = IF Declared(resp) # <<>>
                            THEN <<Req(NextId, "sitemap", Declared(resp)[1])>>
                            ELSE <<Req(NextId, "default", DefaultSitemapUrl)>>
        /\ \A resp \in SitemapResponses :
             /\ (DefaultReturns(resp) /\ ~Cancelled) =>
                  IF ListedChildren(resp) # <<>>
                  THEN NewFetches = <<Req(NextId, "child", ListedChildren(resp)[1])>>
                  ELSE IF ListedPages(resp) # <<>>
                  THEN NewFetches = <<>> /\ loc'.urlsToAnalyze = ListedPages(resp)
                  ELSE NewFetches = <<Req(NextId, "single", SiteUrl)>>
             /\ (SitemapReturns(resp) /\ ~Cancelled /\ resp.kind = "ok") =>
                  IF ListedChildren(resp) # <<>>
                  THEN NewFetches = <<Req(NextId, "child", ListedChildren(resp)[1])>>
                  ELSE \A k \in 1..Len(NewFetches) : NewFetches[k].purpose = "single"
             /\ ChildReturns(resp) =>
                  \A k \in 1..Len(NewFetches) : NewFetches[k].purpose = "single"]_vars

\* robots.txt declared sitemaps, the first was an index of two, and its first
\* child has been fetched and sampled
C23_Witness ==
  /\ pc = "loopTop"
  /\ Len(SitemapFetches) = 2
  /\ SitemapFetches[1] = Req(2, "sitemap", 1)
  /\ SitemapFetches[2] = Req(3, "child", 2)

\* ------------------------------------------------------------------ C24
\* the delivery URL analysed was recognised by the standard structure
CanonicalAnalysed ==
  /\ status = "Delivery URL analyzed."
  /\ ParseStandard(deliveryUrl) \notin {Null, Fallthrough}
\* the position of the resource type in the path, and of the segment the
\* remainder starts after: the delivery type, or the resource type when the
\* delivery type is implicit
TypeAt(path) ==
  IF SegIsOneOf(path[1], {"image", "images", "video", "raw"}) THEN 1 ELSE 2
RemainderAfter(path) ==
  IF Len(path) > TypeAt(path) /\ SegIsOneOf(path[TypeAt(path) + 1], DELIVERY_TYPES)
  THEN TypeAt(path) + 1
  ELSE TypeAt(path)
\* the non-empty comma-separated tokens of the segments from..to of a path
TokensOf(path, from, to) == UNION {{t \in Range(path[k]) : t # ""} : k \in from..to}

\* C24: for every descriptor of the standard structure the public id is the
\* path from some segment after the delivery type (or the resource type) on,
\* and the transformation set is exactly the set of non-empty comma-separated
\* tokens of the segments between the two: no segment before the public id
\* is missing from both.
C24_TokensBeforePublicId ==
  CanonicalAnalysed =>
    LET cld == analysis.perAsset[1].cld
        path == deliveryUrl.path
        after == RemainderAfter(path)
    IN \E p \in (after + 1)..(Len(path) + 1) :
         /\ cld.publicId = SubSeq(path, p, Len(path))
         /\ cld.txSet = TokensOf(path, after + 1, p - 1)

\* ------------------------------------------------------------------ C25
\* the handler has classified the delivery URL typed
UrlHandled ==
  /\ htmlInput = EmptyBody
  /\ deliveryUrl # EmptyUrl
  /\ status = "Delivery URL analyzed." \/ error # <<>>
\* neither the standard structure nor an explicit type pair is recognised
NoCanonicalStructure ==
  /\ deliveryUrl.valid
  /\ Len(deliveryUrl.path) >= 2
  /\ ParseStandard(deliveryUrl) = Fallthrough
  /\ ParseExplicit(deliveryUrl) = Fallthrough
\* the segments that match the transformation grammar, and those of them
\* without a semicolon
GrammarHits(path) == {k \in 1..Len(path) : hasCloudinaryTransformations(path[k])}
CommaHits(path) == {k \in GrammarHits(path) : ~SegHasSemicolon(path[k])}
\* a segment follows the first hit and the path ends in a file extension
FileAfterFirst(path, hits) ==
  /\ hits # {}
  /\ \E k \in hits : (\A g \in hits : k <= g) /\ k < Len(path)
  /\ SegHasExt(path[Len(path)])
LastExtOf(path) == ExtOf(path[Len(path)][Len(path[Len(path)])])
HeuristicDescriptor(cld) ==
  /\ cld.cloudName = <<deliveryUrl.host>>
  /\ cld.deliveryType = "upload"
  /\ cld.resourceType = IF LastExtOf(deliveryUrl.path) \in VideoExts THEN "video" ELSE "image"
\* a result of the standard structure or of an explicit pair is the result
CanonicalFirst ==
  (status = "Delivery URL analyzed." /\ ~NoCanonicalStructure) =>
    analysis.perAsset[1].cld \in {ParseStandard(deliveryUrl), ParseExplicit(deliveryUrl)}

\* C25: the heuristic fallback is used only when no canonical structure is
\* recognised, and it returns a descriptor iff some segment matches the
\* transformation grammar, a segment follows the first such segment and the
\* path ends in a file extension; the descriptor has the host name for cloud
\* name, the delivery type upload, and the resource type video for a video
\* extension and image otherwise.
C25_HeuristicFallback ==
  UrlHandled =>
    /\ CanonicalFirst
    /\ NoCanonicalStructure =>
         /\ status = "Delivery URL analyzed." <=>
              FileAfterFirst(deliveryUrl.path, GrammarHits(deliveryUrl.path))
         /\ status = "Delivery URL analyzed." => HeuristicDescriptor(analysis.perAsset[1].cld)

\* C25 as the code has it: the segments that count are those that match the
\* transformation grammar and contain no semicolon.
C25_HeuristicFallbackCommaOnly ==
  UrlHandled =>
    /\ CanonicalFirst
    /\ NoCanonicalStructure =>
         /\ status = "Delivery URL analyzed." <=>
              FileAfterFirst(deliveryUrl.path, CommaHits(deliveryUrl.path))
         /\ status = "Delivery URL analyzed." => HeuristicDescriptor(analysis.perAsset[1].cld)

\* a video behind a custom domain has been recognised by the heuristic
C25_Witness ==
  /\ UrlHandled
  /\ NoCanonicalStructure
  /\ status = "Delivery URL analyzed."
  /\ analysis.perAsset[1].cld.resourceType = "video"
  /\ analysis.perAsset[1].cld.cloudName = <<"media.example.com">>

\* ------------------------------------------------------------------ C26
\* a message with some text in it
Readable(message) == \E k \in 1..Len(message) : message[k] # ""
\* the message a relay answer other than 2xx is reported with
FailureMessage(resp) ==
  CASE resp.kind = "abort" -> <<"Request timeout">>
    [] resp.kind = "neterr" -> <<"Failed to fetch">>
    [] OTHER -> IF resp.json /\ Readable(resp.error) THEN resp.error
                ELSE IF ~resp.json /\ Readable(resp.statusText) THEN resp.statusText
                ELSE <<"HTTP ", resp.status, ": ">> \o resp.statusText
\* a page fetch settles: the step that logs the relay's answer
PageSettles == pc = "awaitPage" /\ Len(pageLog') = Len(pageLog) + 1
Settled == pageLog'[Len(pageLog')]

\* C26: a relay fetch ends in one of two ways: on a 2xx answer its caller gets
\* the body (the page is analysed and nothing is recorded as failed); on any
\* other answer, a timeout or a failed request its caller gets one failure
\* with a readable message, recorded for the page.  Either way the timer of
\* the fetch is cleared, so an armed timer always belongs to a fetch in flight.
C26_RelayFetchOutcomes ==
  /\ [](timers = Cardinality(inflight))
  /\ [][PageSettles =>
          /\ timers' = 0
          /\ IF Settled.resp.kind = "ok"
             THEN /\ sitemapProgress'.failed = sitemapProgress.failed
                  /\ \/ pc' = "idle" /\ outcome' = "Cancelled"
                     \/ loc'.allResults =
                          Append(loc.allResults,
                                 [url |-> Settled.url, result |-> analyzeBody(Settled.resp.body)])
             ELSE /\ Readable(FailureMessage(Settled.resp))
                  /\ sitemapProgress'.failed =
                       Append(sitemapProgress.failed,
                              [url |-> Settled.url, error |-> FailureMessage(Settled.resp)])
                  /\ loc'.allResults = loc.allResults
                  /\ sitemapProgress'.completed = sitemapProgress.completed]_vars

\* a timeout, an error body that is not JSON and a JSON error body have each
\* been recorded as the failure of a page, and no timer is left armed
C26_Witness ==
  /\ timers = 0
  /\ Len(sitemapProgress.failed) = 3
  /\ sitemapProgress.failed[1].error = <<"Request timeout">>
  /\ sitemapProgress.failed[2].error = <<"HTTP ", "502", ": ">>
  /\ sitemapProgress.failed[3].error = <<"Failed to fetch URL: 403 Forbidden">>

\* ------------------------------------------------------------------ C27
\* the user has cancelled the invocation that is, or was last, running
CancelIssued == run > 0 /\ tokens[run]

\* C27: once the user has cancelled a crawl, the cancelled invocation records
\* nothing more: the lists of completed and of failed pages, emptied by the
\* cancellation, stay empty whatever becomes of the fetch that was in flight.
C27_NoProgressAfterCancel ==
  CancelIssued => sitemapProgress.completed = <<>> /\ sitemapProgress.failed = <<>>

\* the part of C27 that the code keeps: no page is recorded as completed
C27_NoCompletionAfterCancel ==
  CancelIssued => sitemapProgress.completed = <<>>

\* ------------------------------------------------------------------ C28
\* an invocation begins: it creates its cancel token
InvocationBegins == run' = run + 1
\* the flags of the tokens created so far that a step sets
FlagsSet == {k \in 1..Len(tokens) : tokens'[k] # tokens[k]}

\* C28: an invocation that has set the busy flag clears it, and the stored
\* cancel token, on whatever path it ends; every invocation begins with a
\* token of its own whose flag is false and with empty progress lists; and a
\* cancellation sets the flag of the invocation running at that time only,
\* so it never cancels a later one.
C28_BusyAndTokenPerRun ==
  /\ [](/\ Len(tokens) = run
        /\ pc = "idle" => ~isBusy /\ sitemapCancelToken = 0
        /\ pc # "idle" => isBusy /\ sitemapCancelToken = run)
  /\ [][/\ InvocationBegins =>
             /\ tokens' = Append(tokens, FALSE)
             /\ sitemapProgress' = ZeroProgress
             /\ isBusy' = (pc' # "idle")
        /\ ~InvocationBegins =>
             /\ Len(tokens') = Len(tokens)
             /\ FlagsSet \subseteq {run}
             /\ FlagsSet # {} => pc # "idle" /\ tokens'[run]]_vars

\* the second invocation has completed although the first one was cancelled
C28_Witness ==
  /\ run = 2
  /\ tokens = <<TRUE, FALSE>>
  /\ outcome = "Done"
  /\ ~isBusy
  /\ sitemapCancelToken = 0
  /\ Len(sitemapProgress.completed) = 2

\* ------------------------------------------------------------------ C29
\* a sitemap document arrives
SitemapArrives(resp) == DefaultReturns(resp) \/ SitemapReturns(resp) \/ ChildReturns(resp)

\* C29: the pages sampled are page locations of a url-set document: whenever
\* the arrival of a sitemap document leads to the sampling, the document is a
\* url-set and the list sampled from is the list of its page locations; the
\* locations of the children of an index never get there, also when the first
\* child of an index is an index itself.
C29_OnlyPagesSampled ==
  /\ [](Range(loc.pagesToAnalyze) \subseteq Range(loc.urlsToAnalyze))
  /\ [][\A resp \in SitemapResponses :
          (SitemapArrives(resp) /\ pc' = "sampling") =>
            /\ ListedPages(resp) # <<>>
            /\ loc'.urlsToAnalyze = ListedPages(resp)]_vars

\* C29 with the one case left out in which the code departs from it: the
\* first child of an index being an index itself
C29_OnlyPagesSampledUnlessNested ==
  /\ [](Range(loc.pagesToAnalyze) \subseteq Range(loc.urlsToAnalyze))
  /\ [][\A resp \in SitemapResponses :
          (SitemapArrives(resp) /\ pc' = "sampling"
             /\ ~(pc = "awaitChild" /\ ListedChildren(resp) # <<>>)) =>
            /\ ListedPages(resp) # <<>>
            /\ loc'.urlsToAnalyze = ListedPages(resp)]_vars

\* ------------------------------------------------------------------ C30
\* C30: in every analysis published, by whichever mode, the CDN-served and
\* the non-CDN media together are at most the total, the assets with
\* automatic format and those with automatic quality are each at most the
\* CDN-served, the CDN-served count is the length of the per-asset list and
\* the non-CDN count the length of the non-CDN media list.
C30_CoverageCounts ==
  analysis # Null =>
    /\ analysis.coverage.cloudinary + analysis.coverage.nonCloudinaryImages
         <= analysis.coverage.total
    /\ analysis.coverage.autoFormat <= analysis.coverage.cloudinary
    /\ analysis.coverage.autoQuality <= analysis.coverage.cloudinary
    /\ analysis.coverage.cloudinary = Len(analysis.perAsset)
    /\ analysis.coverage.nonCloudinaryImages = Len(analysis.nonCloudinaryImages)

\* a crawl has published its compilation: some elements counted are neither
\* CDN-served nor media, and some CDN-served assets lack automatic format
C30_Witness ==
  /\ outcome = "Done"
  /\ Len(loc.allResults) >= 2
  /\ analysis # Null
  /\ analysis.coverage.cloudinary + analysis.coverage.nonCloudinaryImages
       < analysis.coverage.total
  /\ analysis.coverage.nonCloudinaryImages >= 1
  /\ analysis.coverage.autoFormat >= 1
  /\ analysis.coverage.autoFormat < analysis.coverage.cloudinary

====

